---- MODULE Spec2Model ----
(***************************************************************************)
(* Model of the botdocs vector-database pipeline: the Chunker, the         *)
(* build-time Embedder and the incremental VectorDBBuilder.                *)
(*                                                                         *)
(* Strings are modelled by what the code looks at.  A document's content   *)
(* is the sequence of its lines (content.split('\n')); a line is a record  *)
(*   k : "text" | "head" | "fence" | "blank"  what the chunker's regexes   *)
(*                                            make of the line             *)
(*   n : its length in characters                                          *)
(*   h : for a heading, the captured heading text (a sequence of           *)
(*       one-character strings), <<>> otherwise                            *)
(* Non-blank lines carry no leading or trailing whitespace, so that        *)
(* String.trim() on a joined buffer removes exactly the leading and the    *)
(* trailing blank lines.                                                   *)
(***************************************************************************)
EXTENDS Integers, Sequences, FiniteSets, TLC

(***************************************************************************)
(* Bounds of the model                                                     *)
(***************************************************************************)
MaxBuilds == 2

\* longest document, in lines, given to the stand-alone chunker
MaxLines == 5

\* initialize() and embed() calls made on one Embedder beside an embedBatch
MaxCalls == 2

\* longest list of texts, and largest batch size, given to embedBatch
MaxTexts == 4

MaxBatchSize == 3

\* calls made on the client's ClientEmbedder and VectorSearch
MaxClientCalls == 3

\* search calls made on a loaded VectorSearch, and the largest topK asked for
MaxSearches == 2

MaxTopK == 3

\* queryRAG calls made on one page
MaxQueries == 1

\* progress reports of one embedBatch call that are kept
MaxReports == 5

(***************************************************************************)
(* Generic helpers                                                         *)
(***************************************************************************)
Min(a, b) == IF a < b THEN a ELSE b

Range(s) == {s[i] : i \in 1..Len(s)}

RECURSIVE Concat(_)
Concat(ss) == IF ss = <<>> THEN <<>> ELSE Head(ss) \o Concat(Tail(ss))

\* an absent optional sequence-valued field (heading, headingId)
NoValue == <<>>

\* the fileHash of a chunk written without one
NoHash == [md5 |-> <<>>]

(***************************************************************************)
(* Lines                                                                   *)
(***************************************************************************)
TextLine(n) == [k |-> "text", n |-> n, h |-> <<>>]

HeadLine(level, h) == [k |-> "head", n |-> level + 1 + Len(h), h |-> h]

FenceLine == [k |-> "fence", n |-> 3, h |-> <<>>]

BlankLine == [k |-> "blank", n |-> 0, h |-> <<>>]

\* line.trim().startsWith('```')
IsFence(line) == line.k = "fence"

\* line.match(/^(#{1,3})\s+(.+)$/)
IsHeading(line) == line.k = "head"

\* lines.join('\n').length
RECURSIVE JoinLen(_)
JoinLen(lines) ==
  IF lines = <<>> THEN 0
  ELSE IF Len(lines) = 1 THEN lines[1].n
  ELSE lines[1].n + 1 + JoinLen(Tail(lines))

\* String.prototype.trim on a joined buffer of lines
RECURSIVE TrimStart(_)
TrimStart(lines) ==
  IF lines = <<>> THEN <<>>
  ELSE IF lines[1].k = "blank" THEN TrimStart(Tail(lines))
  ELSE lines

RECURSIVE TrimEnd(_)
TrimEnd(lines) ==
  IF lines = <<>> THEN <<>>
  ELSE IF lines[Len(lines)].k = "blank" THEN TrimEnd(SubSeq(lines, 1, Len(lines) - 1))
  ELSE lines

Trim(lines) == TrimEnd(TrimStart(lines))

\* text.substring(0, n): the lines of the text cut after n characters,
\* every line but the last being followed by one newline character
RECURSIVE Substring(_, _)
Substring(text, n) ==
  IF text = <<>> \/ n <= 0 THEN <<>>
  ELSE IF text[1].n >= n THEN <<[text[1] EXCEPT !.n = n]>>
  ELSE <<text[1]>> \o Substring(Tail(text), n - text[1].n - 1)

(***************************************************************************)
(* Chunker                                                                 *)
(***************************************************************************)
DefaultMaxChunkSize == 500

DefaultChunkOverlap == 50

\* new Chunker(options): a missing or zero option falls back to the default
ChunkerOptions(o) ==
  [maxChunkSize |-> IF o.maxChunkSize = 0 THEN DefaultMaxChunkSize ELSE o.maxChunkSize,
   chunkOverlap |-> IF o.chunkOverlap = 0 THEN DefaultChunkOverlap ELSE o.chunkOverlap]

\* Math.ceil(length / 4)
estimateTokens(len) == (len + 3) \div 4

LowerCase(c) == IF c = "A" THEN "a" ELSE IF c = "B" THEN "b" ELSE c

IsWordChar(c) == c \in {"a", "b", "A", "B", "1", "_"}

RECURSIVE StripLeading(_, _)
StripLeading(s, cs) ==
  IF s = <<>> THEN <<>>
  ELSE IF s[1] \in cs THEN StripLeading(Tail(s), cs)
  ELSE s

RECURSIVE StripTrailing(_, _)
StripTrailing(s, cs) ==
  IF s = <<>> THEN <<>>
  ELSE IF s[Len(s)] \in cs THEN StripTrailing(SubSeq(s, 1, Len(s) - 1), cs)
  ELSE s

RECURSIVE CollapseHyphens(_)
CollapseHyphens(s) ==
  IF Len(s) < 2 THEN s
  ELSE IF s[1] = "-" /\ s[2] = "-" THEN CollapseHyphens(Tail(s))
  ELSE <<s[1]>> \o CollapseHyphens(Tail(s))

slugify(text) ==
  LET lower    == [i \in 1..Len(text) |-> LowerCase(text[i])]
      trimmed  == StripTrailing(StripLeading(lower, {" "}), {" "})
      hyphened == [i \in 1..Len(trimmed) |->
                     IF trimmed[i] \in {" ", "+"} THEN "-" ELSE trimmed[i]]
      wordsOnly == SelectSeq(hyphened, LAMBDA c : IsWordChar(c) \/ c = "-")
      collapsed == CollapseHyphens(wordsOnly)
  IN  StripTrailing(StripLeading(collapsed, {"-"}), {"-"})

\* mutant: the chunk metadata is built without the file hash
createChunk_NoHash(lines, doc, heading, fileHash) ==
  [text |-> Trim(lines),
   metadata |-> [sourceFile |-> doc.relativePath,
                 title |-> IF doc.title = "" THEN "Untitled" ELSE doc.title,
                 heading |-> heading,
                 headingId |-> IF heading = NoValue THEN NoValue ELSE slugify(heading),
                 url |-> doc.url,
                 fileHash |-> NoHash]]

createChunk(lines, doc, heading, fileHash) ==
  [text |-> Trim(lines),
   metadata |-> [sourceFile |-> doc.relativePath,
                 title |-> IF doc.title = "" THEN "Untitled" ELSE doc.title,
                 heading |-> heading,
                 headingId |-> IF heading = NoValue THEN NoValue ELSE slugify(heading),
                 url |-> doc.url,
                 fileHash |-> fileHash]]

RECURSIVE OverlapFrom(_, _, _, _)
OverlapFrom(lines, i, tokenCount, targetTokens) ==
  IF i < 1 THEN <<>>
  ELSE LET lineTokens == estimateTokens(lines[i].n)
       IN  IF tokenCount + lineTokens > targetTokens THEN <<>>
           ELSE OverlapFrom(lines, i - 1, tokenCount + lineTokens, targetTokens)
                  \o <<lines[i]>>

\* mutant: the overlap is the last line alone, when it fits
getOverlapLines_LastLine(lines, targetTokens) ==
  IF lines = <<>> THEN <<>>
  ELSE OverlapFrom(<<lines[Len(lines)]>>, 1, 0, targetTokens)

getOverlapLines(lines, targetTokens) == OverlapFrom(lines, Len(lines), 0, targetTokens)

ChunkerStart ==
  [chunks |-> <<>>, currentChunk |-> <<>>, currentHeading |-> NoValue,
   inCodeBlock |-> FALSE, codeBlockLines |-> <<>>]

\* mutant: on a heading line the buffered chunk is emitted under the new heading
ChunkerLine_TagNew(st, line, doc, fileHash, opts) ==
  IF IsFence(line) THEN
    IF ~st.inCodeBlock
    THEN [st EXCEPT !.inCodeBlock = TRUE, !.codeBlockLines = <<line>>]
    ELSE [st EXCEPT !.inCodeBlock = FALSE,
                    !.currentChunk = st.currentChunk \o st.codeBlockLines \o <<line>>,
                    !.codeBlockLines = <<>>]
  ELSE IF st.inCodeBlock THEN
    [st EXCEPT !.codeBlockLines = Append(st.codeBlockLines, line)]
  ELSE IF IsHeading(line) THEN
    [st EXCEPT !.chunks = IF Len(st.currentChunk) > 0
                          THEN Append(st.chunks,
                                 createChunk(st.currentChunk, doc, line.h, fileHash))
                          ELSE st.chunks,
               !.currentHeading = line.h,
               !.currentChunk = <<line>>]
  ELSE
    LET buf == Append(st.currentChunk, line)
    IN  IF estimateTokens(JoinLen(buf)) >= opts.maxChunkSize
        THEN [st EXCEPT !.chunks = Append(st.chunks,
                                     createChunk(buf, doc, st.currentHeading, fileHash)),
                        !.currentChunk = getOverlapLines(buf, opts.chunkOverlap)]
        ELSE [st EXCEPT !.currentChunk = buf]

\* one iteration of the line loop of chunkDocument
ChunkerLine(st, line, doc, fileHash, opts) ==
  IF IsFence(line) THEN
    IF ~st.inCodeBlock
    THEN [st EXCEPT !.inCodeBlock = TRUE, !.codeBlockLines = <<line>>]
    ELSE [st EXCEPT !.inCodeBlock = FALSE,
                    !.currentChunk = st.currentChunk \o st.codeBlockLines \o <<line>>,
                    !.codeBlockLines = <<>>]
  ELSE IF st.inCodeBlock THEN
    [st EXCEPT !.codeBlockLines = Append(st.codeBlockLines, line)]
  ELSE IF IsHeading(line) THEN
    [st EXCEPT !.chunks = IF Len(st.currentChunk) > 0
                          THEN Append(st.chunks,
                                 createChunk(st.currentChunk, doc, st.currentHeading, fileHash))
                          ELSE st.chunks,
               !.currentHeading = line.h,
               !.currentChunk = <<line>>]
  ELSE
    LET buf == Append(st.currentChunk, line)
    IN  IF estimateTokens(JoinLen(buf)) >= opts.maxChunkSize
        THEN [st EXCEPT !.chunks = Append(st.chunks,
                                     createChunk(buf, doc, st.currentHeading, fileHash)),
                        !.currentChunk = getOverlapLines(buf, opts.chunkOverlap)]
        ELSE [st EXCEPT !.currentChunk = buf]

RECURSIVE ChunkerLoop(_, _, _, _, _, _)
ChunkerLoop(st, lines, i, doc, fileHash, opts) ==
  IF i > Len(lines) THEN st
  ELSE ChunkerLoop(ChunkerLine(st, lines[i], doc, fileHash, opts),
                   lines, i + 1, doc, fileHash, opts)

\* mutant: the buffer left at the end of the document is not emitted
ChunkerFinish_NoFinalChunk(st, doc, fileHash) ==
  SelectSeq(st.chunks, LAMBDA c : JoinLen(c.text) > 0)

\* the final flush and the empty-chunk filter of chunkDocument
ChunkerFinish(st, doc, fileHash) ==
  LET all == IF Len(st.currentChunk) > 0
             THEN Append(st.chunks,
                    createChunk(st.currentChunk, doc, st.currentHeading, fileHash))
             ELSE st.chunks
  IN  SelectSeq(all, LAMBDA c : JoinLen(c.text) > 0)

chunkDocument(doc, fileHash, opts) ==
  ChunkerFinish(ChunkerLoop(ChunkerStart, doc.content, 1, doc, fileHash, opts),
                doc, fileHash)

RECURSIVE chunkDocuments(_, _, _)
chunkDocuments(documents, fileHashes, opts) ==
  IF documents = <<>> THEN <<>>
  ELSE chunkDocument(documents[1], fileHashes[documents[1].relativePath], opts)
         \o chunkDocuments(Tail(documents), fileHashes, opts)

(***************************************************************************)
(* Embedder (build time)                                                   *)
(***************************************************************************)
DefaultModelName == "Xenova/all-MiniLM-L6-v2"

OtherModelName == "Xenova/all-mpnet-base-v2"

ModelNames == {DefaultModelName, OtherModelName}

\* Embedder.constructor: this.dimension
EmbedderDimension == 384

\* length of output.data of the feature-extraction pipeline of a model
ModelOutputLength(modelName) == IF modelName = DefaultModelName THEN 384 ELSE 768

\* Embedder.embed once the model call has resolved: Array.from(output.data).
\* The vector is represented by the model and the text that determine it,
\* and by its length.
embed(modelName, text) ==
  [model |-> modelName, text |-> text, length |-> ModelOutputLength(modelName)]

\* batch size that VectorDBBuilder.build passes to embedBatch
BuildBatchSize == 10

(***************************************************************************)
(* The artifact vector-db.json                                             *)
(***************************************************************************)
FileAbsent == [kind |-> "absent"]

\* a file that is not JSON
FileGarbage == [kind |-> "garbage"]

\* JSON.stringify(vectorDB, null, 2) written by writeFileSync
FileJson(value) == [kind |-> "json", value |-> value]

\* the JSON value null
JsonNull == [shape |-> "null"]

\* a JSON object without a chunks member, such as {}
JsonNoChunks == [shape |-> "nochunks"]

VectorDatabase(modelName, dimension, chunks) ==
  [shape |-> "db", version |-> "1.0", model |-> modelName,
   dimension |-> dimension, chunks |-> chunks]

\* Result of loadExistingDatabase: the parsed value, JsonNull standing for null.
\* Under verbose the log line reads db.chunks.length inside the try block.
loadExistingDatabase(outputFile, isVerbose) ==
  IF outputFile.kind = "absent" THEN JsonNull
  ELSE IF outputFile.kind = "garbage" THEN JsonNull
  ELSE IF isVerbose /\ outputFile.value.shape # "db" THEN JsonNull
  ELSE outputFile.value

\* for (const chunk of db.chunks) throws when db.chunks is undefined
buildCacheMapThrows(db) == db.shape = "nochunks"

\* sourceFile -> chunks, in database order
buildCacheMap(db) ==
  IF db.shape # "db" THEN <<>>
  ELSE LET files == {db.chunks[i].metadata.sourceFile : i \in 1..Len(db.chunks)}
       IN  [f \in files |->
              SelectSeq(db.chunks, LAMBDA c : c.metadata.sourceFile = f)]

\* Map.get: <<>> stands for undefined (an entry always holds a chunk)
CacheGet(cache, sourceFile) ==
  IF sourceFile \in DOMAIN cache THEN cache[sourceFile] ELSE <<>>

(***************************************************************************)
(* VectorDBBuilder                                                         *)
(***************************************************************************)
\* mutant: every content has the same hash
hashContent_Constant(content) == [md5 |-> <<"d41d8cd9">>]

\* createHash('md5').update(content).digest('hex'): deterministic and
\* collision-free on the contents of the model
hashContent(content) == [md5 |-> content]

ChunkIdPrefix == 100

generateChunkId(text, sourceFile, index) ==
  [md5 |-> <<sourceFile, index, Substring(text, ChunkIdPrefix)>>]

FileHashes(documents) ==
  [p \in {documents[i].relativePath : i \in 1..Len(documents)} |->
     hashContent((CHOOSE d \in Range(documents) : d.relativePath = p).content)]

\* mutant: the stored hash is read from a metadata field that is never written
IsUnchanged_MissingField(doc, cache) ==
  LET cachedDocChunks == CacheGet(cache, doc.relativePath)
  IN  /\ cachedDocChunks # <<>>
      /\ NoHash = hashContent(doc.content)

\* mutant: a cache entry counts as a hit without comparing the hash
IsUnchanged_AnyEntry(doc, cache) == CacheGet(cache, doc.relativePath) # <<>>

\* cachedDocChunks && cachedDocChunks[0]?.metadata.fileHash === hash
IsUnchanged(doc, cache) ==
  LET cachedDocChunks == CacheGet(cache, doc.relativePath)
  IN  /\ cachedDocChunks # <<>>
      /\ cachedDocChunks[1].metadata.fileHash = hashContent(doc.content)

UnchangedDocs(documents, cache) ==
  SelectSeq(documents, LAMBDA d : IsUnchanged(d, cache))

ChangedDocs(documents, cache) ==
  SelectSeq(documents, LAMBDA d : ~IsUnchanged(d, cache))

\* mutant: when a document is unchanged, every chunk of the cache is reused
ReusedChunks_WholeCache(unchanged, cache) ==
  IF unchanged = <<>> THEN <<>>
  ELSE CacheGet(cache, "a.md") \o CacheGet(cache, "b.md")

\* mutant: only the first cached chunk of an unchanged document is reused
RECURSIVE ReusedChunks_FirstOnly(_, _)
ReusedChunks_FirstOnly(unchanged, cache) ==
  IF unchanged = <<>> THEN <<>>
  ELSE <<CacheGet(cache, unchanged[1].relativePath)[1]>>
         \o ReusedChunks_FirstOnly(Tail(unchanged), cache)

RECURSIVE ReusedChunks(_, _)
ReusedChunks(unchanged, cache) ==
  IF unchanged = <<>> THEN <<>>
  ELSE CacheGet(cache, unchanged[1].relativePath) \o ReusedChunks(Tail(unchanged), cache)

\* chunks.map((chunk, index) => ...), index counted from 0 over the whole batch
NewChunks(textChunks, vectors) ==
  [j \in 1..Len(textChunks) |->
     [id |-> generateChunkId(textChunks[j].text, textChunks[j].metadata.sourceFile, j - 1),
      text |-> textChunks[j].text,
      embedding |-> vectors[j],
      metadata |-> textChunks[j].metadata]]

(***************************************************************************)
(* Inputs of the build model                                               *)
(***************************************************************************)
Paths == {"a.md", "b.md"}

DocUrl(p) == IF p = "a.md" THEN "/a.html" ELSE "/b.html"

Titles == {"Guide"}

ContentEmpty == <<BlankLine>>

\* one section; splits in two under a maxChunkSize of 4
ContentLong == <<HeadLine(1, <<"A">>), TextLine(12), TextLine(4), TextLine(2)>>

\* two sections
ContentTwo ==
  <<HeadLine(1, <<"A">>), TextLine(8), BlankLine,
    HeadLine(2, <<"B", " ", "b">>), TextLine(4)>>

Document(p, c, t) == [relativePath |-> p, content |-> c, title |-> t, url |-> DocUrl(p)]

\* a.md after an edit of the title in its front matter: matter(content) keeps
\* the title out of the content, which is what gets hashed
RetitledDocument == Document("a.md", ContentTwo, "Manual")

\* lists of documents with pairwise distinct paths, in either order
DocumentLists ==
  LET docsA == {Document("a.md", c, t) : c \in {ContentEmpty, ContentLong, ContentTwo},
                                         t \in Titles}
      docsB == {Document("b.md", c, t) : c \in {ContentLong, ContentTwo}, t \in Titles}
  IN  {<<>>}
      \cup {<<d>> : d \in docsA}
      \cup {<<d, e>> : d \in docsA, e \in docsB}
      \cup {<<e, d>> : d \in {x \in docsA : x.content # ContentEmpty}, e \in docsB}
      \cup {<<RetitledDocument>>}

\* what botdocs.config.json makes of new VectorDBBuilder (0: not configured)
BuilderConfigs ==
  { [modelName |-> DefaultModelName, maxChunkSize |-> 0, chunkOverlap |-> 0],
    [modelName |-> OtherModelName, maxChunkSize |-> 4, chunkOverlap |-> 1] }

\* an artifact written by the non-incremental builder: chunks without fileHash
LegacyDocument == Document("a.md", ContentTwo, "Guide")

LegacyDatabase ==
  LET chunks == chunkDocument(LegacyDocument, NoHash,
                              ChunkerOptions([maxChunkSize |-> 0, chunkOverlap |-> 0]))
  IN  VectorDatabase(DefaultModelName, EmbedderDimension,
        NewChunks(chunks, [j \in 1..Len(chunks) |-> embed(DefaultModelName, chunks[j].text)]))

\* what the environment can leave at the artifact's path
ForeignFiles ==
  {FileAbsent, FileGarbage, FileJson(JsonNull), FileJson(JsonNoChunks),
   FileJson(LegacyDatabase)}

\* the artifact this builder wrote on an earlier run under the configuration
\* cfg, for a.md and b.md as they were then
EarlierDatabase(cfg) ==
  LET docs == <<Document("a.md", ContentLong, "Guide"),
                Document("b.md", ContentTwo, "Guide")>>
      fresh == chunkDocuments(docs, FileHashes(docs), ChunkerOptions(cfg))
  IN  VectorDatabase(cfg.modelName, EmbedderDimension,
        NewChunks(fresh, [j \in 1..Len(fresh) |-> embed(cfg.modelName, fresh[j].text)]))

(***************************************************************************)
(* State                                                                   *)
(***************************************************************************)
VARIABLES
  file,          \* the artifact vector-db.json on disk
  pc,            \* position of build: idle, loading, embedding, done, failed
  builder,       \* the VectorDBBuilder: modelName, chunker options, model loaded
  documents,     \* argument of the build in progress
  verbose,       \* argument of the build in progress
  changedDocs,
  unchangedDocs,
  reusedChunks,
  chunks,        \* TextChunks of the changed documents
  texts,         \* argument of embedBatch
  batchSize,     \* argument of embedBatch
  batchStart,    \* loop variable i of embedBatch
  embeddings,    \* embeddings accumulated by embedBatch
  inFlight,      \* indices (from 1) of texts whose embed call is outstanding
  settled,       \* index -> vector of the resolved embed calls of this batch
  result,        \* the database build returned
  error,         \* what build rejected with
  failure,       \* which awaited call of this build rejected: none, load, embed
  loadCalls,     \* pipeline() calls of this build
  embedLog,      \* indices of texts for which embed was called, in call order
  config,        \* the build configuration of the project
  startFile,     \* the artifact as it was when this build started
  prev,          \* the last build completed before this one started
  last,          \* the last completed build
  nbuilds,
  chunkerDoc,     \* Chunker: the document given to chunkDocument
  chunkerOptions, \* Chunker: maxChunkSize and chunkOverlap of the instance
  chunkerOut,     \* Chunker: what chunkDocument returned
  embedder,       \* Embedder: modelName and whether this.model is set
  pipelineCalls,  \* Embedder: pipeline() calls issued so far
  calls,          \* Embedder: the initialize() and embed() calls made, in call order
  batchCall,      \* Embedder: the embedBatch call
  clientEmbedder, \* ClientEmbedder: model (set or null) and isLoading
  vectorSearch,   \* VectorSearch: vectorDB (JsonNull for null) and isLoading
  clientCalls,    \* the calls made on the two client objects, in call order
  served,         \* the artifact the site serves at /vector-db.json
  fetchCount,     \* fetch('/vector-db.json') calls issued so far
  rag,            \* rag-engine: the module variables isInitialized and topK
  ragCalls,       \* rag-engine: the initializeRAG and queryRAG calls, in call order
  chat            \* chatbox: messages, the stored history, the disabled flags of
                  \* the input and the send button, and the handleSendMessage runs

buildVars ==
  <<file, pc, builder, documents, verbose, changedDocs, unchangedDocs,
    reusedChunks, chunks, texts, batchSize, batchStart, embeddings, inFlight,
    settled, result, error, failure, loadCalls, embedLog, config, startFile,
    prev, last, nbuilds>>

chunkerVars == <<chunkerDoc, chunkerOptions, chunkerOut>>

embedderVars == <<embedder, pipelineCalls, calls, batchCall>>

clientVars == <<clientEmbedder, vectorSearch, clientCalls, served, fetchCount>>

ragVars == <<rag, ragCalls, chat>>

vars == <<buildVars, chunkerVars, embedderVars, clientVars, ragVars>>

\* the variables of the components that take no part in a build
besideBuild == <<chunkerVars, embedderVars, clientVars, ragVars>>

besideChunker == <<buildVars, embedderVars, clientVars, ragVars>>

besideEmbedder == <<buildVars, chunkerVars, clientVars, ragVars>>

besideClient == <<buildVars, chunkerVars, embedderVars, ragVars>>

\* rag-engine works on the two client objects
besideRag == <<buildVars, chunkerVars, embedderVars, chat>>

\* let topK = 5
InitialTopK == 5

\* defaultConfig.build.topK
ConfigTopK == 3

\* the module rag-engine when it is loaded
RagStart == [isInitialized |-> FALSE, topK |-> InitialTopK]

NoResult == [shape |-> "none"]

NoPrev == [valid |-> FALSE]

\* no call of the chunker has returned anything
NotRun == [shape |-> "none"]

\* embedBatch has not been called
NoBatch ==
  [at |-> "none", texts |-> <<>>, batchSize |-> 0, i |-> 0, embeddings |-> <<>>,
   inFlight |-> {}, events |-> <<>>, started |-> <<>>, completed |-> <<>>,
   progress |-> <<>>]

\* new Embedder(), nothing called on it
EmbedderIdle ==
  /\ embedder = [modelName |-> DefaultModelName, model |-> FALSE]
  /\ pipelineCalls = 0
  /\ calls = <<>>
  /\ batchCall = NoBatch

\* the page has not been opened: new ClientEmbedder(), new VectorSearch()
ClientIdle ==
  /\ clientEmbedder = [model |-> FALSE, isLoading |-> FALSE]
  /\ vectorSearch = [vectorDB |-> JsonNull, isLoading |-> FALSE]
  /\ clientCalls = <<>>
  /\ served = VectorDatabase(DefaultModelName, EmbedderDimension, <<>>)
  /\ fetchCount = 0
  /\ rag = RagStart
  /\ ragCalls = <<>>
  /\ chat = [messages |-> <<>>, stored |-> <<>>, inputDisabled |-> FALSE,
             sendDisabled |-> FALSE, sends |-> <<>>]

\* the stand-alone Chunker is not in use
ChunkerIdle ==
  /\ chunkerDoc = Document("a.md", ContentEmpty, "Guide")
  /\ chunkerOptions = ChunkerOptions([maxChunkSize |-> 0, chunkOverlap |-> 0])
  /\ chunkerOut = NotRun

Init ==
  /\ config \in BuilderConfigs
  /\ file \in ForeignFiles \cup {FileJson(EarlierDatabase(config))}
  /\ pc = "idle"
  /\ builder = [modelName |-> DefaultModelName,
                options |-> ChunkerOptions([maxChunkSize |-> 0, chunkOverlap |-> 0]),
                model |-> FALSE]
  /\ documents = <<>>
  /\ verbose \in BOOLEAN
  /\ changedDocs = <<>>
  /\ unchangedDocs = <<>>
  /\ reusedChunks = <<>>
  /\ chunks = <<>>
  /\ texts = <<>>
  /\ batchSize = BuildBatchSize
  /\ batchStart = 0
  /\ embeddings = <<>>
  /\ inFlight = {}
  /\ settled = <<>>
  /\ result = NoResult
  /\ error = "none"
  /\ failure = "none"
  /\ loadCalls = 0
  /\ embedLog = <<>>
  /\ startFile = file
  /\ prev = NoPrev
  /\ last = NoPrev
  /\ nbuilds = 0
  /\ ChunkerIdle
  /\ EmbedderIdle
  /\ ClientIdle

(***************************************************************************)
(* Steps of build                                                          *)
(***************************************************************************)
\* mutant: the new chunks are put first
MergeChunks_NewFirst(reused, new) == new \o reused

\* Step 5 of build: [...reusedChunks, ...newChunks]
MergeChunks(reused, new) == reused \o new

\* Steps 5-7 of build: merge, create the database, write it, return it
Finish(newChunks) ==
  LET vectorDB == VectorDatabase(builder'.modelName, EmbedderDimension,
                                 MergeChunks(reusedChunks', newChunks))
  IN  /\ file' = FileJson(vectorDB)
      /\ result' = vectorDB
      /\ pc' = "done"
      /\ last' = [valid |-> TRUE, documents |-> documents',
                  fromAbsent |-> startFile'.kind = "absent",
                  file |-> FileJson(vectorDB), chunks |-> vectorDB.chunks]

\* the loop of embedBatch from the test of its condition to the next await,
\* then the rest of build when the loop has ended
EmbedLoop(i, acc, outstanding) ==
  IF i < Len(texts')
  THEN LET batch == (i + 1)..Min(i + batchSize', Len(texts'))
       IN  /\ batchStart' = i
           /\ embeddings' = acc
           /\ inFlight' = outstanding \cup batch
           /\ embedLog' = embedLog \o [j \in 1..Cardinality(batch) |-> i + j]
           /\ settled' = <<>>
           /\ pc' = "embedding"
           /\ UNCHANGED <<file, result, last>>
  ELSE /\ batchStart' = i
       /\ embeddings' = acc
       /\ settled' = <<>>
       /\ inFlight' = outstanding
       /\ UNCHANGED embedLog
       /\ Finish(NewChunks(chunks', acc))

\* build up to its first await: load the artifact, classify, reuse, chunk
Build(docs) ==
  /\ UNCHANGED besideBuild
  /\ pc \in {"idle", "done", "failed"}
  /\ inFlight = {}
  /\ nbuilds < MaxBuilds
  /\ nbuilds' = nbuilds + 1
  /\ builder' = [modelName |-> config.modelName, options |-> ChunkerOptions(config),
                 model |-> FALSE]
  /\ documents' = docs
  /\ UNCHANGED <<verbose, config>>
  /\ startFile' = file
  /\ prev' = last
  /\ loadCalls' = 0
  /\ embedLog' = <<>>
  /\ failure' = "none"
  /\ batchSize' = BuildBatchSize
  /\ batchStart' = 0
  /\ embeddings' = <<>>
  /\ settled' = <<>>
  /\ UNCHANGED inFlight
  /\ LET existingDB == loadExistingDatabase(file, verbose)
         cachedChunks == buildCacheMap(existingDB)
     IN  IF buildCacheMapThrows(existingDB)
         THEN /\ pc' = "failed"
              /\ error' = "TypeError"
              /\ changedDocs' = <<>>
              /\ unchangedDocs' = <<>>
              /\ reusedChunks' = <<>>
              /\ chunks' = <<>>
              /\ texts' = <<>>
              /\ result' = NoResult
              /\ UNCHANGED <<file, last>>
         ELSE /\ changedDocs' = ChangedDocs(docs, cachedChunks)
              /\ unchangedDocs' = UnchangedDocs(docs, cachedChunks)
              /\ reusedChunks' = ReusedChunks(unchangedDocs', cachedChunks)
              /\ error' = "none"
              /\ IF Len(changedDocs') > 0
                 THEN /\ chunks' = chunkDocuments(changedDocs', FileHashes(docs),
                                                  builder'.options)
                      /\ texts' = <<>>
                      /\ pc' = "loading"
                      /\ result' = NoResult
                      /\ UNCHANGED <<file, last>>
                 ELSE /\ chunks' = <<>>
                      /\ texts' = <<>>
                      /\ Finish(<<>>)

\* await this.embedder.initialize() resolves; embedBatch starts
LoadOk ==
  /\ UNCHANGED besideBuild
  /\ pc = "loading"
  /\ loadCalls' = loadCalls + 1
  /\ builder' = [builder EXCEPT !.model = TRUE]
  /\ texts' = [j \in 1..Len(chunks) |-> chunks[j].text]
  /\ UNCHANGED <<batchSize, chunks, reusedChunks, documents, verbose, changedDocs,
                 unchangedDocs, error, failure, config, startFile, prev, nbuilds>>
  /\ EmbedLoop(0, <<>>, inFlight)

\* mutant: the artifact is emptied before the model is loaded
LoadFail_Truncated ==
  /\ UNCHANGED besideBuild
  /\ pc = "loading"
  /\ loadCalls' = loadCalls + 1
  /\ failure' = "load"
  /\ pc' = "failed"
  /\ error' = "load"
  /\ file' = FileGarbage
  /\ UNCHANGED <<builder, documents, verbose, changedDocs, unchangedDocs,
                 reusedChunks, chunks, texts, batchSize, batchStart, embeddings,
                 inFlight, settled, result, embedLog, config, startFile, prev, last,
                 nbuilds>>

\* pipeline() rejects: build rejects with the load failure
LoadFail ==
  /\ UNCHANGED besideBuild
  /\ pc = "loading"
  /\ loadCalls' = loadCalls + 1
  /\ failure' = "load"
  /\ pc' = "failed"
  /\ error' = "load"
  /\ UNCHANGED <<file, builder, documents, verbose, changedDocs, unchangedDocs,
                 reusedChunks, chunks, texts, batchSize, batchStart, embeddings,
                 inFlight, settled, result, embedLog, config, startFile, prev, last,
                 nbuilds>>

\* the embed call of text k resolves; the last one of a batch resolves
\* Promise.all and embedBatch goes on
EmbedOk(k) ==
  /\ UNCHANGED besideBuild
  /\ k \in inFlight
  /\ UNCHANGED <<builder, documents, verbose, changedDocs, unchangedDocs,
                 reusedChunks, chunks, texts, batchSize, error, failure, loadCalls,
                 config, startFile, prev, nbuilds>>
  /\ IF pc = "embedding"
     THEN LET done == settled @@ (k :> embed(builder.modelName, texts[k]))
              batch == (batchStart + 1)..Min(batchStart + batchSize, Len(texts))
          IN  IF batch \subseteq DOMAIN done
              THEN LET acc == embeddings \o
                                [j \in 1..Cardinality(batch) |-> done[batchStart + j]]
                   IN  EmbedLoop(batchStart + batchSize, acc, inFlight \ {k})
              ELSE /\ settled' = done
                   /\ inFlight' = inFlight \ {k}
                   /\ UNCHANGED <<file, pc, batchStart, embeddings, result, embedLog,
                                  last>>
     ELSE FALSE

\* mutant: a rejected embed call is issued again
EmbedFail_Retry(k) ==
  /\ UNCHANGED besideBuild
  /\ k \in inFlight
  /\ pc = "embedding"
  /\ failure' = "embed"
  /\ embedLog' = Append(embedLog, k)
  /\ UNCHANGED <<file, pc, builder, documents, verbose, changedDocs, unchangedDocs,
                 reusedChunks, chunks, texts, batchSize, batchStart, embeddings,
                 inFlight, settled, result, error, loadCalls, config, startFile,
                 prev, last, nbuilds>>

\* the embed call of text k rejects: Promise.all, embedBatch and build reject.
\* Nothing observes the calls still outstanding, which are tracked no further.
EmbedFail(k) ==
  /\ UNCHANGED besideBuild
  /\ k \in inFlight
  /\ pc = "embedding"
  /\ inFlight' = {}
  /\ settled' = <<>>
  /\ failure' = "embed"
  /\ pc' = "failed"
  /\ error' = "embed"
  /\ UNCHANGED <<file, builder, documents, verbose, changedDocs, unchangedDocs,
                 reusedChunks, chunks, texts, batchSize, batchStart, embeddings,
                 result, loadCalls, embedLog, config, startFile, prev, last,
                 nbuilds>>

\* the output directory is removed after a run has ended; the values of the
\* ended run are gone with its process
DeleteArtifact ==
  /\ UNCHANGED besideBuild
  /\ pc \in {"done", "failed"}
  /\ nbuilds < MaxBuilds
  /\ file.kind # "absent"
  /\ file' = FileAbsent
  /\ pc' = "idle"
  /\ documents' = <<>>
  /\ changedDocs' = <<>>
  /\ unchangedDocs' = <<>>
  /\ reusedChunks' = <<>>
  /\ chunks' = <<>>
  /\ texts' = <<>>
  /\ batchStart' = 0
  /\ embeddings' = <<>>
  /\ settled' = <<>>
  /\ result' = NoResult
  /\ error' = "none"
  /\ failure' = "none"
  /\ loadCalls' = 0
  /\ embedLog' = <<>>
  /\ startFile' = FileAbsent
  /\ UNCHANGED <<builder, verbose, batchSize, inFlight, config, prev, last, nbuilds>>

Next ==
  \/ \E docs \in DocumentLists : Build(docs)
  \/ LoadOk
  \/ LoadFail
  \/ \E k \in inFlight : EmbedOk(k)
  \/ \E k \in inFlight : EmbedFail(k)
  \/ DeleteArtifact

Spec == Init /\ [][Next]_vars

(***************************************************************************)
(* The build components at rest, for the specifications of one component   *)
(***************************************************************************)
BuildIdle ==
  /\ file = FileAbsent
  /\ pc = "idle"
  /\ builder = [modelName |-> DefaultModelName,
                options |-> ChunkerOptions([maxChunkSize |-> 0, chunkOverlap |-> 0]),
                model |-> FALSE]
  /\ documents = <<>>
  /\ verbose = FALSE
  /\ changedDocs = <<>>
  /\ unchangedDocs = <<>>
  /\ reusedChunks = <<>>
  /\ chunks = <<>>
  /\ texts = <<>>
  /\ batchSize = BuildBatchSize
  /\ batchStart = 0
  /\ embeddings = <<>>
  /\ inFlight = {}
  /\ settled = <<>>
  /\ result = NoResult
  /\ error = "none"
  /\ failure = "none"
  /\ loadCalls = 0
  /\ embedLog = <<>>
  /\ config = [modelName |-> DefaultModelName, maxChunkSize |-> 0, chunkOverlap |-> 0]
  /\ startFile = FileAbsent
  /\ prev = NoPrev
  /\ last = NoPrev
  /\ nbuilds = 0

(***************************************************************************)
(* Chunker.chunkDocument on its own                                        *)
(***************************************************************************)
\* the lines a document is made of: two ordinary lines of 1 and 2 tokens, a
\* fence, two headings, an empty line
ChunkerLines ==
  {TextLine(4), TextLine(8), FenceLine, HeadLine(1, <<"A">>), HeadLine(2, <<"B">>),
   BlankLine}

\* content.split('\n') has at least one element
Contents == UNION {[1..m -> ChunkerLines] : m \in 1..MaxLines}

\* every line carries its position in the document (what the chunker never
\* looks at), so that a chunk tells which lines of the document it holds
WithPositions(lines) ==
  [i \in 1..Len(lines) |->
     [k |-> lines[i].k, n |-> lines[i].n, h |-> lines[i].h, pos |-> i]]

\* options given to new Chunker (0: not given)
ChunkerOptionSets ==
  { [maxChunkSize |-> 0, chunkOverlap |-> 0],
    [maxChunkSize |-> 4, chunkOverlap |-> 2],
    [maxChunkSize |-> 4, chunkOverlap |-> 1],
    [maxChunkSize |-> 3, chunkOverlap |-> 0] }

InitChunker ==
  /\ BuildIdle
  /\ EmbedderIdle
  /\ ClientIdle
  /\ chunkerDoc \in {Document("a.md", WithPositions(c), "Guide") : c \in Contents}
  /\ chunkerOptions \in {ChunkerOptions(o) : o \in ChunkerOptionSets}
  /\ chunkerOut = NotRun

\* chunker.chunkDocument(doc, fileHash)
ChunkDocument ==
  /\ chunkerOut = NotRun
  /\ chunkerOut' = [shape |-> "chunks",
                    chunks |-> chunkDocument(chunkerDoc, hashContent(chunkerDoc.content),
                                             chunkerOptions)]
  /\ UNCHANGED <<chunkerDoc, chunkerOptions>>
  /\ UNCHANGED besideChunker

NextChunker == ChunkDocument

SpecChunker == InitChunker /\ [][NextChunker]_vars

(***************************************************************************)
(* The Embedder on its own: initialize, embed and embedBatch calls          *)
(***************************************************************************)
\* the i-th text of the lists given to embedBatch
PoolText(i) == <<"x", "y", "z">>[((i - 1) % 3) + 1]

BatchTextLists == {[i \in 1..n |-> PoolText(i)] : n \in 0..MaxTexts}

\* a settled embed call of the current batch
Event(k, value) == [index |-> k, value |-> value]

EventIndices(events) == {events[j].index : j \in 1..Len(events)}

\* mutant: the batch counts as complete when its first embed call resolves
BatchSettled_First(events, lo, hi) == lo > hi \/ EventIndices(events) \cap (lo..hi) # {}

\* Promise.all resolves when every embed call of the batch lo..hi has resolved
BatchSettled(events, lo, hi) == (lo..hi) \subseteq EventIndices(events)

\* mutant: the values are taken in the order the calls completed
PromiseAll_CompletionOrder(events, lo, hi) ==
  LET own == SelectSeq(events, LAMBDA e : e.index \in lo..hi)
  IN  [j \in 1..Len(own) |-> own[j].value]

\* the value of Promise.all(batch.map(...)): the resolved values in the order
\* of the batch, whatever order they arrived in
RECURSIVE PromiseAll(_, _, _)
PromiseAll(events, lo, hi) ==
  IF lo > hi THEN <<>>
  ELSE LET own == SelectSeq(events, LAMBDA e : e.index = lo)
       IN  (IF own = <<>> THEN <<>> ELSE <<own[1].value>>) \o PromiseAll(events, lo + 1, hi)

\* last index (from 1) of the batch that starts after i texts
BatchEnd(b, i) == Min(i + b.batchSize, Len(b.texts))

\* the loop of embedBatch from the test of its condition to the next await,
\* or to the return
BatchLoop(b, i, acc) ==
  IF i < Len(b.texts)
  THEN [b EXCEPT !.at = "run", !.i = i, !.embeddings = acc,
                 !.inFlight = b.inFlight \cup ((i + 1)..BatchEnd(b, i)),
                 !.started = b.started \o [j \in 1..(BatchEnd(b, i) - i) |-> i + j],
                 !.events = <<>>]
  ELSE [b EXCEPT !.at = "returned", !.i = i, !.embeddings = acc, !.events = <<>>]

InitEmbedder ==
  /\ BuildIdle
  /\ ChunkerIdle
  /\ EmbedderIdle
  /\ ClientIdle

\* embedder.initialize() up to its await: pipeline() is called
Initialize ==
  /\ Len(calls) < MaxCalls
  /\ calls' = Append(calls, [op |-> "initialize", at |-> "load", text |-> "",
                             value |-> NoValue])
  /\ pipelineCalls' = pipelineCalls + 1
  /\ UNCHANGED <<embedder, batchCall>>
  /\ UNCHANGED besideEmbedder

\* embedder.embed(text) up to its first await: initialize() when this.model
\* is not set, the model call otherwise
Embed(text) ==
  /\ Len(calls) < MaxCalls
  /\ IF embedder.model
     THEN /\ calls' = Append(calls, [op |-> "embed", at |-> "infer", text |-> text,
                                     value |-> NoValue])
          /\ UNCHANGED pipelineCalls
     ELSE /\ calls' = Append(calls, [op |-> "embed", at |-> "load", text |-> text,
                                     value |-> NoValue])
          /\ pipelineCalls' = pipelineCalls + 1
  /\ UNCHANGED <<embedder, batchCall>>
  /\ UNCHANGED besideEmbedder

\* the pipeline() call of call c resolves: this.model is assigned; initialize
\* returns, embed goes on to the model call
PipelineOk(c) ==
  /\ calls[c].at = "load"
  /\ embedder' = [embedder EXCEPT !.model = TRUE]
  /\ calls' = [calls EXCEPT ![c].at = IF calls[c].op = "initialize"
                                      THEN "returned" ELSE "infer"]
  /\ UNCHANGED <<pipelineCalls, batchCall>>
  /\ UNCHANGED besideEmbedder

PipelineFail(c) ==
  /\ calls[c].at = "load"
  /\ calls' = [calls EXCEPT ![c].at = "rejected"]
  /\ UNCHANGED <<embedder, pipelineCalls, batchCall>>
  /\ UNCHANGED besideEmbedder

\* the model call of embed call c resolves: embed returns Array.from(output.data)
InferOk(c) ==
  /\ calls[c].at = "infer"
  /\ calls' = [calls EXCEPT ![c].at = "returned",
                            ![c].value = embed(embedder.modelName, calls[c].text)]
  /\ UNCHANGED <<embedder, pipelineCalls, batchCall>>
  /\ UNCHANGED besideEmbedder

InferFail(c) ==
  /\ calls[c].at = "infer"
  /\ calls' = [calls EXCEPT ![c].at = "rejected"]
  /\ UNCHANGED <<embedder, pipelineCalls, batchCall>>
  /\ UNCHANGED besideEmbedder

\* embedder.embedBatch(ts, bs) up to its first await
EmbedBatch(ts, bs) ==
  /\ batchCall.at = "none"
  /\ LET b == [NoBatch EXCEPT !.texts = ts, !.batchSize = bs]
     IN  IF embedder.model
         THEN /\ batchCall' = BatchLoop(b, 0, <<>>)
              /\ UNCHANGED pipelineCalls
         ELSE /\ batchCall' = [b EXCEPT !.at = "load"]
              /\ pipelineCalls' = pipelineCalls + 1
  /\ UNCHANGED <<embedder, calls>>
  /\ UNCHANGED besideEmbedder

\* the initialize() that embedBatch awaits resolves; the loop starts
BatchPipelineOk ==
  /\ batchCall.at = "load"
  /\ embedder' = [embedder EXCEPT !.model = TRUE]
  /\ batchCall' = BatchLoop(batchCall, 0, <<>>)
  /\ UNCHANGED <<pipelineCalls, calls>>
  /\ UNCHANGED besideEmbedder

BatchPipelineFail ==
  /\ batchCall.at = "load"
  /\ batchCall' = [batchCall EXCEPT !.at = "rejected"]
  /\ UNCHANGED <<embedder, pipelineCalls, calls>>
  /\ UNCHANGED besideEmbedder

\* the embed call of text k of embedBatch resolves; when Promise.all resolves
\* with it the values are pushed, progress is reported and the loop goes on
BatchEmbedOk(k) ==
  /\ k \in batchCall.inFlight
  /\ LET lo == batchCall.i + 1
         hi == BatchEnd(batchCall, batchCall.i)
         ev == Append(batchCall.events,
                      Event(k, embed(embedder.modelName, batchCall.texts[k])))
         b1 == [batchCall EXCEPT !.inFlight = @ \ {k}, !.events = ev,
                                 !.completed = Append(@, k)]
     IN  IF batchCall.at = "run"
         THEN IF BatchSettled(ev, lo, hi)
              THEN batchCall' =
                     BatchLoop([b1 EXCEPT !.progress = Append(@, <<hi, Len(b1.texts)>>)],
                               batchCall.i + batchCall.batchSize,
                               batchCall.embeddings \o PromiseAll(ev, lo, hi))
              ELSE batchCall' = b1
         ELSE batchCall' = [batchCall EXCEPT !.inFlight = @ \ {k}]
  /\ UNCHANGED <<embedder, pipelineCalls, calls>>
  /\ UNCHANGED besideEmbedder

\* Promise.all of a batch without texts resolves (batchSize 0: slice(i, i)
\* is empty): progress is reported and the loop goes on from i + batchSize.
\* Of the reports, the first MaxReports are kept.
BatchEmptyOk ==
  /\ batchCall.at = "run"
  /\ BatchEnd(batchCall, batchCall.i) <= batchCall.i
  /\ batchCall' =
       BatchLoop([batchCall EXCEPT !.progress =
                    IF Len(@) < MaxReports
                    THEN Append(@, <<BatchEnd(batchCall, batchCall.i), Len(batchCall.texts)>>)
                    ELSE @],
                 batchCall.i + batchCall.batchSize,
                 batchCall.embeddings)
  /\ UNCHANGED <<embedder, pipelineCalls, calls>>
  /\ UNCHANGED besideEmbedder

\* the embed call of text k of embedBatch rejects: Promise.all and embedBatch
\* reject at once, the other calls of the batch stay outstanding
BatchEmbedFail(k) ==
  /\ k \in batchCall.inFlight
  /\ batchCall' = [batchCall EXCEPT !.inFlight = @ \ {k},
                                    !.at = IF @ = "run" THEN "rejected" ELSE @]
  /\ UNCHANGED <<embedder, pipelineCalls, calls>>
  /\ UNCHANGED besideEmbedder

NextEmbedder ==
  \/ Initialize
  \/ \E text \in {"q"} : Embed(text)
  \/ \E c \in 1..Len(calls) : PipelineOk(c)
  \/ \E c \in 1..Len(calls) : PipelineFail(c)
  \/ \E c \in 1..Len(calls) : InferOk(c)
  \/ \E c \in 1..Len(calls) : InferFail(c)
  \/ \E ts \in BatchTextLists, bs \in 0..MaxBatchSize : EmbedBatch(ts, bs)
  \/ BatchPipelineOk
  \/ BatchPipelineFail
  \/ \E k \in batchCall.inFlight : BatchEmbedOk(k)
  \/ \E k \in batchCall.inFlight : BatchEmbedFail(k)
  \/ BatchEmptyOk

SpecEmbedder == InitEmbedder /\ [][NextEmbedder]_vars

\* every awaited call settles: the model load, the embed calls of a batch, the
\* Promise.all of an empty batch
FairEmbedder ==
  /\ SpecEmbedder
  /\ WF_vars(BatchPipelineOk \/ BatchPipelineFail)
  /\ WF_vars(\E k \in batchCall.inFlight : BatchEmbedOk(k) \/ BatchEmbedFail(k))
  /\ WF_vars(BatchEmptyOk)

(***************************************************************************)
(* VectorSearch: cosine similarity and search                              *)
(*                                                                         *)
(* Vectors are sequences of integers whose norm is an integer, and a score *)
(* is the exact fraction dot / (normA * normB) in lowest terms.            *)
(***************************************************************************)
RECURSIVE Gcd(_, _)
Gcd(a, b) == IF b = 0 THEN a ELSE Gcd(b, a % b)

Abs(x) == IF x < 0 THEN -x ELSE x

\* the number num / den (den > 0), in lowest terms
Score(num, den) ==
  LET g == Gcd(Abs(num), den)
  IN  [kind |-> "score", num |-> num \div g, den |-> den \div g]

\* throw new Error('Vectors must have the same length')
LengthError == [kind |-> "throw", num |-> 0, den |-> 1]

\* Math.sqrt of a perfect square
Sqrt(n) == CHOOSE r \in 0..n : r * r = n

RECURSIVE SumTo(_, _, _)
SumTo(a, b, i) == IF i = 0 THEN 0 ELSE a[i] * b[i] + SumTo(a, b, i - 1)

\* mutant: the shorter length is used instead of throwing
cosineSimilarity_Truncate(a, b) ==
  LET n == Min(Len(a), Len(b))
      normA == Sqrt(SumTo(a, a, n))
      normB == Sqrt(SumTo(b, b, n))
  IN  IF normA = 0 \/ normB = 0 THEN Score(0, 1)
      ELSE Score(SumTo(a, b, n), normA * normB)

\* mutant: no test for a zero norm; 0 / 0 is NaN
cosineSimilarity_NoZeroTest(a, b) ==
  IF Len(a) # Len(b) THEN LengthError
  ELSE LET normA == Sqrt(SumTo(a, a, Len(a)))
           normB == Sqrt(SumTo(b, b, Len(b)))
       IN  IF normA = 0 \/ normB = 0 THEN [kind |-> "NaN", num |-> 0, den |-> 1]
           ELSE Score(SumTo(a, b, Len(a)), normA * normB)

cosineSimilarity(a, b) ==
  IF Len(a) # Len(b) THEN LengthError
  ELSE LET dotProduct == SumTo(a, b, Len(a))
           normA == Sqrt(SumTo(a, a, Len(a)))
           normB == Sqrt(SumTo(b, b, Len(b)))
       IN  IF normA = 0 \/ normB = 0 THEN Score(0, 1)
           ELSE Score(dotProduct, normA * normB)

\* x < y for two scores
ScoreLess(x, y) == x.num * y.den < y.num * x.den

\* mutant: the comparator sorts by ascending score
RECURSIVE SortByScore_Ascending(_)
SortByScore_Ascending(results) ==
  IF results = <<>> THEN <<>>
  ELSE LET rest == SortByScore_Ascending(Tail(results))
           r == Head(results)
           before == SelectSeq(rest, LAMBDA x : ScoreLess(x.score, r.score))
           after == SelectSeq(rest, LAMBDA x : ~ScoreLess(x.score, r.score))
       IN  before \o <<r>> \o after

\* results.sort((a, b) => b.score - a.score): a stable sort, so a result
\* stays before the later results that do not score higher
RECURSIVE SortByScore(_)
SortByScore(results) ==
  IF results = <<>> THEN <<>>
  ELSE LET rest == SortByScore(Tail(results))
           r == Head(results)
           before == SelectSeq(rest, LAMBDA x : ScoreLess(r.score, x.score))
           after == SelectSeq(rest, LAMBDA x : ~ScoreLess(r.score, x.score))
       IN  before \o <<r>> \o after

\* the body of search once this.vectorDB is set: the results, or the error
\* that the first chunk of another length throws out of the map
search(vectorDB, queryEmbedding, topK) ==
  LET results == [j \in 1..Len(vectorDB.chunks) |->
                    [chunk |-> vectorDB.chunks[j],
                     score |-> cosineSimilarity(queryEmbedding,
                                                vectorDB.chunks[j].embedding)]]
  IN  IF \E j \in 1..Len(results) : results[j].score.kind = "throw"
      THEN [at |-> "rejected", value |-> "length"]
      ELSE [at |-> "returned",
            value |-> SubSeq(SortByScore(results), 1, Min(topK, Len(results)))]

(***************************************************************************)
(* The client: ClientEmbedder and VectorSearch with their lazy loading     *)
(***************************************************************************)
ClientModelName == "Xenova/e5-small-v2"

\* topK of search when the caller gives none
DefaultSearchTopK == 5

ClientChunk(id, embedding) == [id |-> id, embedding |-> embedding]

ClientDatabase(cs) == VectorDatabase(DefaultModelName, EmbedderDimension, cs)

\* artifacts the site can serve: one with equal scores, an opposite and a zero
\* vector, one with embeddings of two lengths, one without chunks, one with
\* empty vectors
ClientDatabases ==
  { ClientDatabase(<<ClientChunk("c1", <<3, 4>>), ClientChunk("c2", <<-3, -4>>),
                     ClientChunk("c3", <<0, 0>>), ClientChunk("c4", <<3, 4>>)>>),
    ClientDatabase(<<ClientChunk("c1", <<3, 4>>), ClientChunk("c2", <<1, 0, 0>>)>>),
    ClientDatabase(<<>>),
    ClientDatabase(<<ClientChunk("c1", <<>>), ClientChunk("c2", <<>>)>>) }

Queries == {<<3, 4>>, <<0, 5>>, <<0, 0>>, <<>>, <<1, 0, 0>>}

ClientCall(op, query, topK, text) ==
  [op |-> op, at |-> "new", query |-> query, topK |-> topK, text |-> text,
   value |-> NoValue]

OnEmbedder(call) == call.op \in {"initialize", "embed"}

\* what a call does once the load it needed or waited for is over:
\* initialize and loadVectorDB return; embed calls this.model, search maps over
\* this.vectorDB.chunks, and either throws a TypeError on null
Resume(call, emb, vs) ==
  IF call.op \in {"initialize", "loadVectorDB"} THEN [call EXCEPT !.at = "returned"]
  ELSE IF call.op = "embed"
  THEN IF emb.model THEN [call EXCEPT !.at = "infer"]
       ELSE [call EXCEPT !.at = "rejected", !.value = "TypeError"]
  ELSE IF vs.vectorDB = JsonNull
  THEN [call EXCEPT !.at = "rejected", !.value = "TypeError"]
  ELSE LET r == search(vs.vectorDB, call.query, call.topK)
       IN  [call EXCEPT !.at = r.at, !.value = r.value]

\* initialize() or embed() up to the first await.  The flag isLoading is read
\* and set without an await between, so one caller becomes the loader.
CallEmbedder(call) ==
  /\ Len(clientCalls) < MaxClientCalls
  /\ IF clientEmbedder.model
     THEN /\ clientCalls' = Append(clientCalls, Resume(call, clientEmbedder, vectorSearch))
          /\ UNCHANGED clientEmbedder
     ELSE IF clientEmbedder.isLoading
     THEN /\ clientCalls' = Append(clientCalls, [call EXCEPT !.at = "wait"])
          /\ UNCHANGED clientEmbedder
     ELSE /\ clientCalls' = Append(clientCalls, [call EXCEPT !.at = "load"])
          /\ clientEmbedder' = [clientEmbedder EXCEPT !.isLoading = TRUE]
  /\ UNCHANGED <<vectorSearch, served, fetchCount>>
  /\ UNCHANGED besideClient

\* mutant: the isLoading flag is not consulted
CallVectorSearch_NoFlag(call) ==
  /\ Len(clientCalls) < MaxClientCalls
  /\ IF vectorSearch.vectorDB # JsonNull
     THEN /\ clientCalls' = Append(clientCalls, Resume(call, clientEmbedder, vectorSearch))
          /\ UNCHANGED <<vectorSearch, fetchCount>>
     ELSE /\ clientCalls' = Append(clientCalls, [call EXCEPT !.at = "fetch"])
          /\ vectorSearch' = [vectorSearch EXCEPT !.isLoading = TRUE]
          /\ fetchCount' = fetchCount + 1
  /\ UNCHANGED <<clientEmbedder, served>>
  /\ UNCHANGED besideClient

\* loadVectorDB() or search() up to the first await
CallVectorSearch(call) ==
  /\ Len(clientCalls) < MaxClientCalls
  /\ IF vectorSearch.vectorDB # JsonNull
     THEN /\ clientCalls' = Append(clientCalls, Resume(call, clientEmbedder, vectorSearch))
          /\ UNCHANGED <<vectorSearch, fetchCount>>
     ELSE IF vectorSearch.isLoading
     THEN /\ clientCalls' = Append(clientCalls, [call EXCEPT !.at = "wait"])
          /\ UNCHANGED <<vectorSearch, fetchCount>>
     ELSE /\ clientCalls' = Append(clientCalls, [call EXCEPT !.at = "fetch"])
          /\ vectorSearch' = [vectorSearch EXCEPT !.isLoading = TRUE]
          /\ fetchCount' = fetchCount + 1
  /\ UNCHANGED <<clientEmbedder, served>>
  /\ UNCHANGED besideClient

ClientInitialize == CallEmbedder(ClientCall("initialize", <<>>, 0, ""))

ClientEmbed(text) == CallEmbedder(ClientCall("embed", <<>>, 0, text))

LoadVectorDB == CallVectorSearch(ClientCall("loadVectorDB", <<>>, 0, ""))

Search(queryEmbedding, topK) ==
  CallVectorSearch(ClientCall("search", queryEmbedding, topK, ""))

\* mutant: a caller that waited returns without looking at what was loaded
ClientSettle_Blind(c, emb, vs, failedWith) ==
  /\ clientCalls' = [clientCalls EXCEPT ![c] =
                       IF failedWith # ""
                       THEN [@ EXCEPT !.at = "rejected", !.value = failedWith]
                       ELSE [@ EXCEPT !.at = "returned", !.value = <<>>]]
  /\ clientEmbedder' = emb
  /\ vectorSearch' = vs
  /\ UNCHANGED <<served, fetchCount>>
  /\ UNCHANGED besideClient

\* call c goes on after an await: it rejects with the failure of what it
\* awaited, or resumes with the objects as they now are
ClientSettle(c, emb, vs, failedWith) ==
  /\ clientCalls' = [clientCalls EXCEPT ![c] =
                       IF failedWith # ""
                       THEN [@ EXCEPT !.at = "rejected", !.value = failedWith]
                       ELSE Resume(@, emb, vs)]
  /\ clientEmbedder' = emb
  /\ vectorSearch' = vs
  /\ UNCHANGED <<served, fetchCount>>
  /\ UNCHANGED besideClient

\* pipeline() of the loading call resolves: this.model is set, finally clears
\* isLoading
ClientPipelineOk(c) ==
  /\ clientCalls[c].at = "load"
  /\ ClientSettle(c, [model |-> TRUE, isLoading |-> FALSE], vectorSearch, "")

ClientPipelineFail(c) ==
  /\ clientCalls[c].at = "load"
  /\ ClientSettle(c, [clientEmbedder EXCEPT !.isLoading = FALSE], vectorSearch, "load")

\* this.model(prefixedText) resolves: embed returns Array.from(output.data)
ClientInferOk(c) ==
  /\ clientCalls[c].at = "infer"
  /\ clientCalls' = [clientCalls EXCEPT
                       ![c].at = "returned",
                       ![c].value = embed(ClientModelName, <<"query: ", clientCalls[c].text>>)]
  /\ UNCHANGED <<clientEmbedder, vectorSearch, served, fetchCount>>
  /\ UNCHANGED besideClient

ClientInferFail(c) ==
  /\ clientCalls[c].at = "infer"
  /\ ClientSettle(c, clientEmbedder, vectorSearch, "infer")

\* fetch('/vector-db.json') resolves; response.json() is awaited
FetchOk(c) ==
  /\ clientCalls[c].at = "fetch"
  /\ clientCalls' = [clientCalls EXCEPT ![c].at = "json"]
  /\ UNCHANGED <<clientEmbedder, vectorSearch, served, fetchCount>>
  /\ UNCHANGED besideClient

FetchFail(c) ==
  /\ clientCalls[c].at = "fetch"
  /\ ClientSettle(c, clientEmbedder, [vectorSearch EXCEPT !.isLoading = FALSE], "fetch")

\* response.json() resolves: this.vectorDB is set, finally clears isLoading
JsonOk(c) ==
  /\ clientCalls[c].at = "json"
  /\ ClientSettle(c, clientEmbedder, [vectorDB |-> served, isLoading |-> FALSE], "")

\* the body is not JSON (an error page, a cut transfer)
JsonFail(c) ==
  /\ clientCalls[c].at = "json"
  /\ ClientSettle(c, clientEmbedder, [vectorSearch EXCEPT !.isLoading = FALSE], "json")

\* a waiting caller's timer fires and finds isLoading cleared
WaitDone(c) ==
  /\ clientCalls[c].at = "wait"
  /\ IF OnEmbedder(clientCalls[c]) THEN ~clientEmbedder.isLoading
                                   ELSE ~vectorSearch.isLoading
  /\ ClientSettle(c, clientEmbedder, vectorSearch, "")

InitClient ==
  /\ BuildIdle
  /\ ChunkerIdle
  /\ EmbedderIdle
  /\ clientEmbedder = [model |-> FALSE, isLoading |-> FALSE]
  /\ vectorSearch = [vectorDB |-> JsonNull, isLoading |-> FALSE]
  /\ clientCalls = <<>>
  /\ served \in ClientDatabases
  /\ fetchCount = 0
  /\ rag = RagStart
  /\ ragCalls = <<>>
  /\ chat = [messages |-> <<>>, stored |-> <<>>, inputDisabled |-> FALSE,
             sendDisabled |-> FALSE, sends |-> <<>>]

NextClient ==
  \/ ClientInitialize
  \/ \E text \in {"q"} : ClientEmbed(text)
  \/ LoadVectorDB
  \/ \E q \in {<<3, 4>>} : Search(q, DefaultSearchTopK)
  \/ \E c \in 1..Len(clientCalls) : ClientPipelineOk(c)
  \/ \E c \in 1..Len(clientCalls) : ClientPipelineFail(c)
  \/ \E c \in 1..Len(clientCalls) : ClientInferOk(c)
  \/ \E c \in 1..Len(clientCalls) : ClientInferFail(c)
  \/ \E c \in 1..Len(clientCalls) : FetchOk(c)
  \/ \E c \in 1..Len(clientCalls) : FetchFail(c)
  \/ \E c \in 1..Len(clientCalls) : JsonOk(c)
  \/ \E c \in 1..Len(clientCalls) : JsonFail(c)
  \/ \E c \in 1..Len(clientCalls) : WaitDone(c)

SpecClient == InitClient /\ [][NextClient]_vars

\* a VectorSearch whose database is loaded, as it is after the page's first
\* load has succeeded
InitSearch ==
  /\ BuildIdle
  /\ ChunkerIdle
  /\ EmbedderIdle
  /\ clientEmbedder = [model |-> FALSE, isLoading |-> FALSE]
  /\ served \in ClientDatabases
  /\ vectorSearch = [vectorDB |-> served, isLoading |-> FALSE]
  /\ clientCalls = <<>>
  /\ fetchCount = 1
  /\ rag = RagStart
  /\ ragCalls = <<>>
  /\ chat = [messages |-> <<>>, stored |-> <<>>, inputDisabled |-> FALSE,
             sendDisabled |-> FALSE, sends |-> <<>>]

NextSearch ==
  \E q \in Queries, topK \in 0..MaxTopK :
    /\ Len(clientCalls) < MaxSearches
    /\ Search(q, topK)

SpecSearch == InitSearch /\ [][NextSearch]_vars

(***************************************************************************)
(* The search engine of the chat (rag-engine): initializeRAG, queryRAG,    *)
(* setTopK.  A query is the sequence of its lower-case words; an answer is *)
(* the record of the parts formatSearchResults concatenates; a title or a  *)
(* link is the sequence of the strings it is concatenated from.            *)
(***************************************************************************)
RagChunk(id, embedding, text, heading, url) ==
  [id |-> id, text |-> text, embedding |-> embedding,
   metadata |-> [title |-> "Guide",
                 heading |-> heading,
                 headingId |-> IF heading = NoValue THEN NoValue ELSE slugify(heading),
                 url |-> url]]

\* artifacts of a site: five chunks on two pages, two of them under headings
\* with one slug; one chunk; no chunk
RagDatabases ==
  { ClientDatabase(
      <<RagChunk("g1", <<3, 4>>, <<TextLine(8)>>, <<"A">>, "/a.html"),
        RagChunk("g2", <<4, 3>>, <<TextLine(4)>>, <<"a">>, "/a.html"),
        RagChunk("g3", <<5, 0>>, <<TextLine(401)>>, NoValue, "/b.html"),
        RagChunk("g4", <<0, 5>>,
                 <<TextLine(200), FenceLine, TextLine(300), FenceLine, TextLine(200)>>,
                 <<"B", " ", "b">>, "/a.html"),
        RagChunk("g5", <<-3, -4>>, <<TextLine(4)>>, NoValue, "/b.html")>>),
    ClientDatabase(<<RagChunk("g1", <<3, 4>>, <<TextLine(8)>>, <<"A">>, "/a.html")>>),
    ClientDatabase(<<>>) }

RagQueries ==
  { <<"how", "to", "install">>, <<"what", "is", "botdocs">>, <<"why", "static">>,
    <<"setup">> }

\* what embedder.embed(query) resolves to
QueryVector(query) ==
  IF query[1] = "what" THEN <<5, 0>>
  ELSE IF query[1] = "why" THEN <<0, 5>>
  ELSE <<3, 4>>

\* the answer for no results
NothingFound ==
  [intro |-> [kind |-> "nothing found", count |-> 0], items |-> <<>>,
   footer |-> [kind |-> "none", count |-> 0]]

\* the text of a preview and whether '...' follows it
formatTextPreview(text) ==
  LET fences == {i \in 1..Len(text) : IsFence(text[i])}
      open == CHOOSE i \in fences : \A j \in fences : i <= j
      close == CHOOSE i \in fences \ {open} : \A j \in fences \ {open} : i <= j
  IN  IF JoinLen(text) <= 400 THEN [text |-> text, ellipsis |-> FALSE]
      ELSE IF Cardinality(fences) >= 2
      THEN [text |-> Substring(Trim(SubSeq(text, 1, open - 1)), 150)
                       \o <<BlankLine>> \o SubSeq(text, open, close) \o <<BlankLine>>
                       \o Substring(Trim(SubSeq(text, close + 1, Len(text))), 150),
            ellipsis |-> TRUE]
      ELSE [text |-> Substring(text, 400), ellipsis |-> TRUE]

\* url, with '#' and the headingId when there is one
DeepLink(metadata) ==
  IF metadata.headingId = NoValue THEN <<metadata.url>>
  ELSE <<metadata.url, "#">> \o metadata.headingId

\* mutant: every result is rendered
formatSearchResults_All(query, results) ==
  IF results = <<>> THEN NothingFound
  ELSE
    LET isHowTo == Len(query) >= 2 /\ query[1] = "how" /\ query[2] \in {"to", "do", "can"}
        isWhat == Len(query) >= 2 /\ query[1] = "what" /\ query[2] \in {"is", "are"}
        isWhy == query[1] = "why"
        topResults == results
    IN  [intro |-> IF isHowTo THEN [kind |-> "how to", count |-> 0]
                   ELSE IF isWhat THEN [kind |-> "what", count |-> 0]
                   ELSE IF isWhy THEN [kind |-> "why", count |-> 0]
                   ELSE IF Len(results) = 1 THEN [kind |-> "one section", count |-> 0]
                   ELSE [kind |-> "sections", count |-> Len(topResults)],
         items |-> [i \in 1..Len(topResults) |->
                      [heading |-> IF topResults[i].chunk.metadata.heading # NoValue
                                   THEN topResults[i].chunk.metadata.heading
                                   ELSE <<topResults[i].chunk.metadata.title>>,
                       preview |-> formatTextPreview(Trim(topResults[i].chunk.text)),
                       link |-> DeepLink(topResults[i].chunk.metadata),
                       highlyRelevant |-> ScoreLess(Score(7, 10), topResults[i].score)]],
         footer |-> IF Len(results) > 3
                    THEN [kind |-> "more", count |-> Len(results) - 3]
                    ELSE IF Len(results) = 1 THEN [kind |-> "follow-up", count |-> 0]
                    ELSE [kind |-> "none", count |-> 0]]

formatSearchResults(query, results) ==
  IF results = <<>> THEN NothingFound
  ELSE
    LET isHowTo == Len(query) >= 2 /\ query[1] = "how" /\ query[2] \in {"to", "do", "can"}
        isWhat == Len(query) >= 2 /\ query[1] = "what" /\ query[2] \in {"is", "are"}
        isWhy == query[1] = "why"
        topResults == SubSeq(results, 1, Min(3, Len(results)))
    IN  [intro |-> IF isHowTo THEN [kind |-> "how to", count |-> 0]
                   ELSE IF isWhat THEN [kind |-> "what", count |-> 0]
                   ELSE IF isWhy THEN [kind |-> "why", count |-> 0]
                   ELSE IF Len(results) = 1 THEN [kind |-> "one section", count |-> 0]
                   ELSE [kind |-> "sections", count |-> Len(topResults)],
         items |-> [i \in 1..Len(topResults) |->
                      [heading |-> IF topResults[i].chunk.metadata.heading # NoValue
                                   THEN topResults[i].chunk.metadata.heading
                                   ELSE <<topResults[i].chunk.metadata.title>>,
                       preview |-> formatTextPreview(Trim(topResults[i].chunk.text)),
                       link |-> DeepLink(topResults[i].chunk.metadata),
                       highlyRelevant |-> ScoreLess(Score(7, 10), topResults[i].score)]],
         footer |-> IF Len(results) > 3
                    THEN [kind |-> "more", count |-> Len(results) - 3]
                    ELSE IF Len(results) = 1 THEN [kind |-> "follow-up", count |-> 0]
                    ELSE [kind |-> "none", count |-> 0]]

\* searchResults.map((result) => ({title, url}))
sources(searchResults) ==
  [i \in 1..Len(searchResults) |->
     [title |-> IF searchResults[i].chunk.metadata.heading # NoValue
                THEN <<searchResults[i].chunk.metadata.title, " → ">>
                       \o searchResults[i].chunk.metadata.heading
                ELSE <<searchResults[i].chunk.metadata.title>>,
      url |-> DeepLink(searchResults[i].chunk.metadata)]]

\* Array.from(new Map(sources.map((s) => [s.url, s])).values()): a Map keeps a
\* key at the place of its first set and the value of its last set
uniqueSources(list) ==
  LET n == Len(list)
      IsFirst(i) == \A j \in 1..(i - 1) : list[j].url # list[i].url
      LastOf(i) == CHOOSE j \in i..n :
                     /\ list[j].url = list[i].url
                     /\ \A m \in (j + 1)..n : list[m].url # list[i].url
      RECURSIVE From(_)
      From(i) == IF i > n THEN <<>>
                 ELSE IF IsFirst(i) THEN <<list[LastOf(i)]>> \o From(i + 1)
                 ELSE From(i + 1)
  IN  From(1)

\* initializeRAG up to its first await, loadVectorDB's fetch; chatbox calls it
\* once, when the chat is set up
InitializeRAG ==
  /\ \A c \in 1..Len(ragCalls) : ragCalls[c].op # "initializeRAG"
  /\ ragCalls' = Append(ragCalls,
                    [op |-> "initializeRAG", at |-> "loadVectorDB", query |-> <<>>,
                     topK |-> 0, k |-> 0, results |-> <<>>, value |-> NoValue,
                     error |-> ""])
  /\ vectorSearch' = [vectorSearch EXCEPT !.isLoading = TRUE]
  /\ fetchCount' = fetchCount + 1
  /\ UNCHANGED <<rag, clientEmbedder, clientCalls, served>>
  /\ UNCHANGED besideRag

\* loadVectorDB settles: initializeRAG goes on to embedder.initialize, or
\* rethrows
RagLoaded(c, ok) ==
  /\ ragCalls[c].at = "loadVectorDB"
  /\ IF ok
     THEN /\ vectorSearch' = [vectorDB |-> served, isLoading |-> FALSE]
          /\ clientEmbedder' = [clientEmbedder EXCEPT !.isLoading = TRUE]
          /\ ragCalls' = [ragCalls EXCEPT ![c].at = "initialize"]
     ELSE /\ vectorSearch' = [vectorSearch EXCEPT !.isLoading = FALSE]
          /\ ragCalls' = [ragCalls EXCEPT ![c].at = "rejected", ![c].error = "load"]
          /\ UNCHANGED clientEmbedder
  /\ UNCHANGED <<rag, clientCalls, served, fetchCount>>
  /\ UNCHANGED besideRag

\* embedder.initialize settles: isInitialized = true, or rethrow
RagModelLoaded(c, ok) ==
  /\ ragCalls[c].at = "initialize"
  /\ IF ok
     THEN /\ clientEmbedder' = [model |-> TRUE, isLoading |-> FALSE]
          /\ rag' = [rag EXCEPT !.isInitialized = TRUE]
          /\ ragCalls' = [ragCalls EXCEPT ![c].at = "returned"]
     ELSE /\ clientEmbedder' = [clientEmbedder EXCEPT !.isLoading = FALSE]
          /\ ragCalls' = [ragCalls EXCEPT ![c].at = "rejected", ![c].error = "model"]
          /\ UNCHANGED rag
  /\ UNCHANGED <<vectorSearch, clientCalls, served, fetchCount>>
  /\ UNCHANGED besideRag

isRAGReady == rag.isInitialized

\* mutant: queryRAG goes on to embed whether or not the engine is initialized
QueryRAG_NoReadyCheck(query, options) ==
  /\ Cardinality({c \in 1..Len(ragCalls) : ragCalls[c].op = "queryRAG"}) < MaxQueries
  /\ ragCalls' =
       Append(ragCalls,
         [op |-> "queryRAG", at |-> "embed", query |-> query, topK |-> options.topK,
          k |-> IF options.topK # 0 THEN options.topK ELSE rag.topK,
          results |-> <<>>, value |-> NoValue, error |-> ""])
  /\ UNCHANGED <<rag, clientVars>>
  /\ UNCHANGED <<buildVars, chunkerVars, embedderVars>>

\* queryRAG(query, options) up to its first await, embedder.embed(query);
\* options.topK is 0 when the caller gives none
QueryRAG(query, options) ==
  /\ Cardinality({c \in 1..Len(ragCalls) : ragCalls[c].op = "queryRAG"}) < MaxQueries
  /\ ragCalls' =
       Append(ragCalls,
         [op |-> "queryRAG",
          at |-> IF rag.isInitialized THEN "embed" ELSE "rejected",
          query |-> query,
          topK |-> options.topK,
          k |-> IF options.topK # 0 THEN options.topK ELSE rag.topK,
          results |-> <<>>,
          value |-> NoValue,
          error |-> IF rag.isInitialized THEN "" ELSE "Search system not initialized"])
  /\ UNCHANGED <<rag, clientVars>>
  /\ UNCHANGED <<buildVars, chunkerVars, embedderVars>>

\* mutant: a search without results is thrown as an error
RagEmbedded_ThrowOnEmpty(c, ok) ==
  /\ ragCalls[c].at = "embed"
  /\ LET searchResults == search(vectorSearch.vectorDB, QueryVector(ragCalls[c].query),
                                 ragCalls[c].k)
     IN  ragCalls' =
           [ragCalls EXCEPT ![c] =
              IF ~ok THEN [@ EXCEPT !.at = "rejected", !.error = "infer"]
              ELSE IF searchResults.at = "rejected"
              THEN [@ EXCEPT !.at = "rejected", !.error = searchResults.value]
              ELSE IF searchResults.value = <<>>
              THEN [@ EXCEPT !.at = "rejected", !.error = "no results"]
              ELSE [@ EXCEPT !.at = "returned",
                             !.results = searchResults.value,
                             !.value = [answer |-> formatSearchResults(ragCalls[c].query,
                                                                       searchResults.value),
                                        sources |-> uniqueSources(
                                                      sources(searchResults.value))]]]
  /\ UNCHANGED <<rag, clientVars>>
  /\ UNCHANGED besideRag

\* embedder.embed(query) settles: search, format, collect the sources and
\* return; or rethrow what embed or search threw
RagEmbedded(c, ok) ==
  /\ ragCalls[c].at = "embed"
  /\ LET searchResults == search(vectorSearch.vectorDB, QueryVector(ragCalls[c].query),
                                 ragCalls[c].k)
     IN  ragCalls' =
           [ragCalls EXCEPT ![c] =
              IF ~ok THEN [@ EXCEPT !.at = "rejected", !.error = "infer"]
              ELSE IF searchResults.at = "rejected"
              THEN [@ EXCEPT !.at = "rejected", !.error = searchResults.value]
              ELSE [@ EXCEPT !.at = "returned",
                             !.results = searchResults.value,
                             !.value = [answer |-> formatSearchResults(ragCalls[c].query,
                                                                       searchResults.value),
                                        sources |-> uniqueSources(
                                                      sources(searchResults.value))]]]
  /\ UNCHANGED <<rag, clientVars>>
  /\ UNCHANGED besideRag

setTopK(k) ==
  /\ rag.topK # k
  /\ rag' = [rag EXCEPT !.topK = k]
  /\ UNCHANGED <<ragCalls, clientVars>>
  /\ UNCHANGED besideRag

InitRag ==
  /\ BuildIdle
  /\ ChunkerIdle
  /\ EmbedderIdle
  /\ clientEmbedder = [model |-> FALSE, isLoading |-> FALSE]
  /\ vectorSearch = [vectorDB |-> JsonNull, isLoading |-> FALSE]
  /\ clientCalls = <<>>
  /\ served \in RagDatabases
  /\ fetchCount = 0
  /\ rag = RagStart
  /\ ragCalls = <<>>
  /\ chat = [messages |-> <<>>, stored |-> <<>>, inputDisabled |-> FALSE,
             sendDisabled |-> FALSE, sends |-> <<>>]

NextRag ==
  \/ InitializeRAG
  \/ \E c \in 1..Len(ragCalls), ok \in BOOLEAN : RagLoaded(c, ok)
  \/ \E c \in 1..Len(ragCalls), ok \in BOOLEAN : RagModelLoaded(c, ok)
  \/ \E query \in RagQueries, topK \in {0, 1, MaxTopK + 1} :
       QueryRAG(query, [topK |-> topK]) /\ UNCHANGED chat
  \/ \E c \in 1..Len(ragCalls), ok \in BOOLEAN : RagEmbedded(c, ok)
  \/ \E k \in {0, ConfigTopK, InitialTopK} : setTopK(k)

SpecRag == InitRag /\ [][NextRag]_vars

(***************************************************************************)
(* The chat box (chatbox.ts).  chat.messages is the module variable        *)
(* messages and chat.stored the history in localStorage; a message is a    *)
(* record of role, content and citations.  The text of the input is a      *)
(* sequence of words in which " " stands for white space.  chat.sends      *)
(* holds the runs of handleSendMessage: the message, the position (at its  *)
(* await import, at its await queryRAG, done) and the queryRAG call.       *)
(***************************************************************************)

\* handleSendMessage(input) up to its first await: a click on the send button
\* or Enter in the input, neither of which a disabled element delivers
handleSendMessage(text) ==
  LET blank == \A i \in 1..Len(text) : text[i] = " "
      lo == CHOOSE i \in 1..Len(text) :
              text[i] # " " /\ \A j \in 1..(i - 1) : text[j] = " "
      hi == CHOOSE i \in 1..Len(text) :
              text[i] # " " /\ \A j \in (i + 1)..Len(text) : text[j] = " "
      message == IF blank THEN <<>> ELSE SubSeq(text, lo, hi)
      added == Append(chat.messages,
                      [role |-> "user", content |-> message, citations |-> <<>>])
  IN  /\ ~chat.sendDisabled \/ ~chat.inputDisabled
      /\ Len(chat.sends) < MaxQueries
      /\ IF message = <<>>
         THEN UNCHANGED chat
         ELSE chat' = [messages |-> added, stored |-> added,
                       inputDisabled |-> TRUE, sendDisabled |-> TRUE,
                       sends |-> Append(chat.sends,
                                        [message |-> message, at |-> "import", call |-> 0])]
      /\ UNCHANGED <<rag, ragCalls, clientVars, buildVars, chunkerVars, embedderVars>>

\* the import of rag-engine.js resolves and queryRAG(message) is called; a
\* call that throws at once is caught in the same turn of the event loop
ChatImported(s) ==
  LET added == Append(chat.messages,
                      [role |-> "assistant",
                       content |-> "Sorry, I encountered an error. Please try again.",
                       citations |-> <<>>])
  IN  /\ chat.sends[s].at = "import"
      /\ QueryRAG(chat.sends[s].message, [topK |-> 0])
      /\ IF rag.isInitialized
         THEN chat' = [chat EXCEPT !.sends[s].at = "queryRAG",
                                   !.sends[s].call = Len(ragCalls) + 1]
         ELSE chat' = [messages |-> added, stored |-> added,
                       inputDisabled |-> FALSE, sendDisabled |-> FALSE,
                       sends |-> [chat.sends EXCEPT ![s].at = "done",
                                                    ![s].call = Len(ragCalls) + 1]]

\* queryRAG has settled: the answer with its sources, or the apology, is
\* added, and the finally block enables the button and the input again
ChatReplied(s) ==
  LET response == ragCalls[chat.sends[s].call]
      reply == IF response.at = "returned"
               THEN [role |-> "assistant", content |-> response.value.answer,
                     citations |-> response.value.sources]
               ELSE [role |-> "assistant",
                     content |-> "Sorry, I encountered an error. Please try again.",
                     citations |-> <<>>]
      added == Append(chat.messages, reply)
  IN  /\ chat.sends[s].at = "queryRAG"
      /\ response.at \in {"returned", "rejected"}
      /\ chat' = [messages |-> added, stored |-> added,
                  inputDisabled |-> FALSE, sendDisabled |-> FALSE,
                  sends |-> [chat.sends EXCEPT ![s].at = "done"]]
      /\ UNCHANGED <<rag, ragCalls, clientVars, buildVars, chunkerVars, embedderVars>>

\* a click on the clear button, which is never disabled; clearChatHistory
\* removes the stored history and empties messages
handleClearChat(confirmed) ==
  /\ IF confirmed
     THEN chat' = [chat EXCEPT !.messages = <<>>, !.stored = <<>>]
     ELSE UNCHANGED chat
  /\ UNCHANGED <<rag, ragCalls, clientVars, buildVars, chunkerVars, embedderVars>>

NextChat ==
  \/ InitializeRAG
  \/ \E c \in 1..Len(ragCalls), ok \in BOOLEAN : RagLoaded(c, ok)
  \/ \E c \in 1..Len(ragCalls), ok \in BOOLEAN : RagModelLoaded(c, ok)
  \/ \E c \in 1..Len(ragCalls), ok \in BOOLEAN : RagEmbedded(c, ok)
  \/ \E text \in {<<>>, <<" ">>, <<" ", "setup", " ">>, <<"what", "is", "botdocs">>} :
       handleSendMessage(text)
  \/ \E s \in 1..Len(chat.sends) : ChatImported(s)
  \/ \E s \in 1..Len(chat.sends) : ChatReplied(s)
  \/ \E confirmed \in BOOLEAN : handleClearChat(confirmed)

\* every import and every call of the rag engine settles
SpecChat ==
  /\ InitRag
  /\ [][NextChat]_vars
  /\ WF_vars(\E s \in 1..Len(chat.sends) : ChatImported(s))
  /\ WF_vars(\E c \in 1..Len(ragCalls), ok \in BOOLEAN : RagEmbedded(c, ok))
  /\ WF_vars(\E s \in 1..Len(chat.sends) : ChatReplied(s))

(***************************************************************************)
(* Vocabulary of the properties                                            *)
(***************************************************************************)
\* the chunk list of the artifact found at build start, <<>> when there is
\* none to read
PriorChunks ==
  IF startFile.kind = "json" /\ startFile.value.shape = "db"
  THEN startFile.value.chunks ELSE <<>>

PriorChunksOf(p) == SelectSeq(PriorChunks, LAMBDA c : c.metadata.sourceFile = p)

ResultChunksOf(p) == SelectSeq(result.chunks, LAMBDA c : c.metadata.sourceFile = p)

\* the build got as far as classifying its documents
Classified == pc # "idle" /\ ~(pc = "failed" /\ error = "TypeError")

DocIndices == 1..Len(documents)

FreshChunksOf(doc) == chunkDocument(doc, hashContent(doc.content), builder.options)

TextsOf(cs) == [j \in 1..Len(cs) |-> cs[j].text]

IsInjective(s) == \A i, j \in 1..Len(s) : s[i] = s[j] => i = j

\* position in documents of the document a chunk belongs to
DocPosition(c) == CHOOSE i \in DocIndices : documents[i].relativePath = c.metadata.sourceFile

\* 0 for a chunk of an unchanged document, 1 for a chunk of a changed one
Group(c) == IF documents[DocPosition(c)] \in Range(unchangedDocs) THEN 0 ELSE 1

\* number of chunks of the same file before position j of the list cs
OwnIndex(cs, j) ==
  Cardinality({i \in 1..(j - 1) : cs[i].metadata.sourceFile = cs[j].metadata.sourceFile})

\* this build is a rebuild, with the same documents, of an artifact that a
\* completed build wrote starting from an absent artifact
RebuildOfFirstBuild ==
  /\ pc = "done"
  /\ prev.valid
  /\ prev.fromAbsent
  /\ startFile = prev.file
  /\ documents = prev.documents

(***************************************************************************)
(* Properties                                                              *)
(***************************************************************************)
\* C1: a build from an absent artifact followed by a build of the same
\* documents: the second build returns the chunk sequence of the first (same
\* ids, embeddings, order) and calls embed zero times.
C1_RebuildIsIdentical ==
  RebuildOfFirstBuild => (result.chunks = prev.chunks /\ embedLog = <<>>)

C1_Witness ==
  /\ RebuildOfFirstBuild
  /\ Len(documents) = 2
  /\ Len(result.chunks) >= 3

\* C2: a document is classified unchanged iff the prior artifact has a chunk
\* for its sourceFile and the first such chunk stores the hash of the
\* document's current content; every other document is classified changed.
C2_Classification ==
  Classified =>
    \A i \in DocIndices :
      LET doc == documents[i]
          cached == PriorChunksOf(doc.relativePath)
          hit == /\ cached # <<>>
                 /\ cached[1].metadata.fileHash = hashContent(doc.content)
      IN  /\ (doc \in Range(unchangedDocs)) <=> hit
          /\ (doc \in Range(changedDocs)) <=> ~hit

C2_Witness ==
  /\ Classified
  /\ \E i, j \in DocIndices :
       /\ documents[i] \in Range(unchangedDocs)
       /\ documents[j] \in Range(changedDocs)
       /\ PriorChunksOf(documents[j].relativePath) # <<>>

\* C3: in a completed build the chunks of every unchanged document are those
\* of the prior artifact, verbatim; the texts given to embedBatch are the
\* chunk texts of the changed documents; there is one embed call per chunk of
\* a changed document.
C3_ReuseAndEmbed ==
  pc = "done" =>
    /\ \A i \in DocIndices :
         documents[i] \in Range(unchangedDocs) =>
           ResultChunksOf(documents[i].relativePath)
             = PriorChunksOf(documents[i].relativePath)
    /\ texts = Concat([i \in 1..Len(changedDocs) |-> TextsOf(FreshChunksOf(changedDocs[i]))])
    /\ Len(embedLog) = Len(Concat([i \in 1..Len(changedDocs) |-> FreshChunksOf(changedDocs[i])]))
    /\ [j \in 1..Len(embedLog) |-> texts[embedLog[j]]] = texts

C3_Witness ==
  /\ pc = "done"
  /\ Len(reusedChunks) >= 2
  /\ Len(embedLog) >= 1

\* C4: after a build in which a document's content hash differs from the hash
\* stored for it in the prior artifact, no prior chunk of that document is in
\* the new artifact, and each chunk of the new artifact with its sourceFile is
\* one of the chunks created in this build and carries the fresh hash.
HashDiffers(doc) ==
  /\ PriorChunksOf(doc.relativePath) # <<>>
  /\ PriorChunksOf(doc.relativePath)[1].metadata.fileHash # hashContent(doc.content)

C4_WholeDocumentInvalidation ==
  pc = "done" =>
    \A i \in DocIndices :
      HashDiffers(documents[i]) =>
        /\ \A c \in Range(PriorChunksOf(documents[i].relativePath)) :
             c \notin Range(file.value.chunks)
        /\ \A j \in 1..Len(file.value.chunks) :
             file.value.chunks[j].metadata.sourceFile = documents[i].relativePath =>
               /\ j > Len(reusedChunks)
               /\ file.value.chunks[j] \in Range(NewChunks(chunks, embeddings))
               /\ file.value.chunks[j].metadata.fileHash = hashContent(documents[i].content)

C4_Witness ==
  /\ pc = "done"
  /\ Len(reusedChunks) >= 1
  /\ \E i \in DocIndices :
       /\ HashDiffers(documents[i])
       /\ PriorChunksOf(documents[i].relativePath)[1].metadata.fileHash # NoHash
       /\ ResultChunksOf(documents[i].relativePath) # <<>>

\* C5: the id of every chunk of a built database is the hash of its
\* sourceFile, its index within its own file and the first 100 characters of
\* its text, whichever other documents were chunked in the same build.
C5_IdFromOwnIndex ==
  pc = "done" =>
    \A j \in (Len(reusedChunks) + 1)..Len(result.chunks) :
      result.chunks[j].id
        = generateChunkId(result.chunks[j].text, result.chunks[j].metadata.sourceFile,
                          OwnIndex(result.chunks, j))

\* C6: the chunk list of the built database is the chunks of the unchanged
\* documents followed by those of the changed documents, each group in input
\* document order and each document's chunks in their own order.
C6_MergeOrder ==
  pc = "done" =>
    /\ \A j, k \in 1..Len(result.chunks) :
         j < k =>
           LET cj == result.chunks[j]
               ck == result.chunks[k]
           IN  \/ Group(cj) < Group(ck)
               \/ Group(cj) = Group(ck) /\ DocPosition(cj) <= DocPosition(ck)
    /\ \A i \in DocIndices :
         LET doc == documents[i]
         IN  IF doc \in Range(unchangedDocs)
             THEN ResultChunksOf(doc.relativePath) = PriorChunksOf(doc.relativePath)
             ELSE TextsOf(ResultChunksOf(doc.relativePath)) = TextsOf(FreshChunksOf(doc))

C6_Witness ==
  /\ pc = "done"
  /\ Len(documents) = 2
  /\ documents[1] \in Range(changedDocs)
  /\ documents[2] \in Range(unchangedDocs)
  /\ documents[1].relativePath = "a.md"
  /\ Len(ResultChunksOf("a.md")) >= 2

\* C7: in every database that build persists, each chunk's embedding length
\* equals the database's dimension field.
C7_EmbeddingLengthIsDimension ==
  pc = "done" =>
    \A j \in 1..Len(file.value.chunks) :
      file.value.chunks[j].embedding.length = file.value.dimension

\* C8: when the artifact at build start is absent, is not JSON, or is JSON
\* without a usable chunks list, build does not throw on it and classifies
\* every document as changed, whatever the verbose setting.
UnreadableArtifact ==
  \/ startFile.kind \in {"absent", "garbage"}
  \/ startFile.kind = "json" /\ startFile.value.shape # "db"

C8_UnreadableArtifactIsNoCache ==
  (pc # "idle" /\ UnreadableArtifact) =>
    /\ error # "TypeError"
    /\ changedDocs = documents
    /\ unchangedDocs = <<>>

\* C9: a build of zero documents, or of documents that all chunk to zero
\* chunks, ends by returning and persisting a database with an empty chunk list
\* and raises no error (here for builds that start from a readable artifact).
EmptyCorpus == \A i \in DocIndices : FreshChunksOf(documents[i]) = <<>>

C9_EmptyCorpusIsNoError ==
  (~UnreadableArtifact /\ EmptyCorpus /\ pc \in {"done", "failed"}) =>
    /\ pc = "done"
    /\ result.chunks = <<>>
    /\ file = FileJson(result)

\* C10: a rejected model load or embed call makes build reject with that
\* failure; no load or embed call is issued twice, a rejected build returns no
\* database, and every embedding of a returned database is the one embed
\* produced for the chunk's text.
C10_FailurePropagates ==
  /\ failure # "none" => (pc = "failed" /\ error = failure /\ result = NoResult)
  /\ loadCalls <= 1
  /\ IsInjective(embedLog)
  /\ pc = "done" =>
       \A j \in (Len(reusedChunks) + 1)..Len(result.chunks) :
         result.chunks[j].embedding
           = embed(builder.modelName, result.chunks[j].text)

C10_Witness ==
  /\ pc = "failed"
  /\ failure = "embed"
  /\ Len(embedLog) >= 2

\* what the cache is correct about: a chunk's source file, text, embedding and
\* content hash
CacheTuple(c) == <<c.metadata.sourceFile, c.text, c.embedding, c.metadata.fileHash>>

\* number of chunks of a list with the given tuple
CountOf(cs, t) == Cardinality({j \in 1..Len(cs) : CacheTuple(cs[j]) = t})

\* what this builder returns for the current documents when it finds no
\* artifact
FromScratch ==
  LET fresh == chunkDocuments(documents, FileHashes(documents), builder.options)
  IN  NewChunks(fresh, [j \in 1..Len(fresh) |-> embed(builder.modelName, fresh[j].text)])

\* C29: cache correctness: whatever artifact a build of this builder (same
\* chunker options, same model, deterministic embed) left behind, the multiset
\* of (sourceFile, text, embedding, content hash) of the chunks an incremental
\* build returns equals that of a from-scratch build of the same documents.
C29_CacheCorrectness ==
  pc = "done" =>
    \A t \in {CacheTuple(c) : c \in Range(result.chunks) \cup Range(FromScratch)} :
      CountOf(result.chunks, t) = CountOf(FromScratch, t)

\* an incremental build over the artifact of the previous build has reused the
\* chunks of one document and embedded anew those of another
C29_Witness ==
  /\ pc = "done"
  /\ prev.valid
  /\ startFile = prev.file
  /\ reusedChunks # <<>>
  /\ embedLog # <<>>
  /\ Len(result.chunks) >= 3

\* C30: after any build every chunk's metadata.title and metadata.url are the
\* current title and url of the input document with that sourceFile, for chunks
\* reused from the cache as well as for new ones.
C30_MetadataIsCurrent ==
  pc = "done" =>
    \A c \in Range(result.chunks) :
      \E d \in Range(documents) :
        /\ d.relativePath = c.metadata.sourceFile
        /\ c.metadata.title = (IF d.title = "" THEN "Untitled" ELSE d.title)
        /\ c.metadata.url = d.url

\* this build is a rebuild, with the same documents, of the artifact that the
\* previous completed build wrote, whatever that build started from
RebuildOfAnyBuild ==
  /\ pc = "done"
  /\ prev.valid
  /\ startFile = prev.file
  /\ documents = prev.documents

\* C31: a rebuild with unchanged documents is a no-op on the artifact from
\* every reachable state: after any build, builds where only some documents
\* changed included, a further build of the same documents returns the same
\* chunk sequence, ids and embeddings in the same order.
C31_RebuildIsNoOp ==
  RebuildOfAnyBuild => (result.chunks = prev.chunks /\ file = prev.file)

\* the chunks of the artifact on disk
PersistedChunks ==
  IF file.kind = "json" /\ file.value.shape = "db" THEN file.value.chunks ELSE <<>>

\* C32: after any build every chunk of the persisted database has the
\* relativePath of an input document of that build as its sourceFile: chunks of
\* documents no longer in the input are not carried over.
C32_NoStaleSourceFiles ==
  pc = "done" =>
    \A c \in Range(PersistedChunks) :
      \E d \in Range(documents) : d.relativePath = c.metadata.sourceFile

\* a build of a.md alone over an artifact that held chunks of a.md and b.md
\* has reused the chunks of a.md
C32_Witness ==
  /\ pc = "done"
  /\ \E c \in Range(PriorChunks) :
       \A d \in Range(documents) : d.relativePath # c.metadata.sourceFile
  /\ reusedChunks # <<>>
  /\ PersistedChunks # <<>>

\* C33: when a build fails because the model load or an embed call fails, the
\* artifact is exactly what it was when the build started.
C33_FailureKeepsArtifact ==
  (pc = "failed" /\ failure \in {"load", "embed"}) => file = startFile

\* a build that reuses chunks of a readable artifact has failed at an embed call
C33_Witness ==
  /\ pc = "failed"
  /\ failure = "embed"
  /\ PriorChunks # <<>>
  /\ reusedChunks # <<>>
  /\ file = startFile

(***************************************************************************)
(* Properties of the chunker                                               *)
(***************************************************************************)
\* positions of the fence lines of a content, in document order
FencePositions(content) ==
  LET RECURSIVE From(_)
      From(i) == IF i > Len(content) THEN <<>>
                 ELSE IF IsFence(content[i]) THEN <<i>> \o From(i + 1)
                 ELSE From(i + 1)
  IN  From(1)

\* the fence-open line and its matching fence-close line of every closed block
FencePairs(content) ==
  LET f == FencePositions(content)
  IN  {<<f[2 * j - 1], f[2 * j]>> : j \in 1..(Len(f) \div 2)}

\* the document positions of the lines of a chunk
PositionsOf(chunk) == {chunk.text[i].pos : i \in 1..Len(chunk.text)}

ChunkerReturned == chunkerOut # NotRun

\* the largest per-line token estimate among the lines of a text
MaxLineTokens(text) ==
  IF text = <<>> THEN 0
  ELSE LET t == {estimateTokens(text[i].n) : i \in 1..Len(text)}
       IN  CHOOSE m \in t : \A x \in t : x <= m

\* C19: code-block atomicity: a fenced block (fence-open line to its matching
\* fence-close line) lies wholly inside every emitted chunk that holds any of
\* its lines, chunks seeded by the overlap window included.
C19_CodeBlockAtomicity ==
  ChunkerReturned =>
    \A j \in 1..Len(chunkerOut.chunks) :
      \A pair \in FencePairs(chunkerDoc.content) :
        LET held == PositionsOf(chunkerOut.chunks[j])
            block == pair[1]..pair[2]
        IN  held \cap block # {} => block \subseteq held

\* C20: chunk size bound: every emitted chunk of more than one line has a token
\* estimate of at most maxChunkSize plus the estimate of its longest line,
\* chunks that hold fenced code blocks included.
C20_ChunkSizeBound ==
  ChunkerReturned =>
    \A j \in 1..Len(chunkerOut.chunks) :
      LET text == chunkerOut.chunks[j].text
      IN  Len(text) > 1 =>
            estimateTokens(JoinLen(text))
              <= chunkerOptions.maxChunkSize + MaxLineTokens(text)

\* the position of the fence line that opens a block the document never
\* closes (0: every block is closed)
OpenFence(content) ==
  LET f == FencePositions(content)
  IN  IF Len(f) % 2 = 1 THEN f[Len(f)] ELSE 0

\* C21: when a document ends inside a code fence that was opened and never
\* closed, the fence line and the (non-blank) lines after it are held by the
\* final chunk.
C21_UnterminatedFenceIsEmitted ==
  ChunkerReturned /\ OpenFence(chunkerDoc.content) # 0 =>
    /\ chunkerOut.chunks # <<>>
    /\ \A q \in OpenFence(chunkerDoc.content)..Len(chunkerDoc.content) :
         chunkerDoc.content[q].k # "blank" =>
           q \in PositionsOf(chunkerOut.chunks[Len(chunkerOut.chunks)])

\* the line at position i lies inside a code block (the fence lines excluded)
InCodeBlock(content, i) ==
  Cardinality({q \in 1..(i - 1) : IsFence(content[q])}) % 2 = 1

\* positions of the lines the chunker takes for headings
HeadingPositions(content) ==
  {i \in 1..Len(content) : IsHeading(content[i]) /\ ~InCodeBlock(content, i)}

\* the heading that is current at position p
CurrentHeadingAt(content, p) ==
  LET before == {i \in HeadingPositions(content) : i <= p}
  IN  IF before = {} THEN NoValue
      ELSE content[CHOOSE i \in before : \A x \in before : x <= i].h

\* the lines from..to of a content stay below maxChunkSize when joined
StaysBelow(content, from, to, maxChunkSize) ==
  estimateTokens(JoinLen(SubSeq(content, from, to))) < maxChunkSize

\* C22: a heading line outside a code block closes the buffered chunk under the
\* heading that was current before it and opens a chunk that starts with the
\* heading line and is tagged with the new heading: every chunk is tagged with
\* the heading current at its first line, a heading line is never inside a
\* chunk, every heading line starts a chunk, and a document of two headed
\* sections that stay below maxChunkSize yields exactly two chunks, tagged with
\* the first and the second heading.
C22_HeadingBoundary ==
  ChunkerReturned =>
    LET content == chunkerDoc.content
        cs == chunkerOut.chunks
        hs == HeadingPositions(content)
    IN  /\ \A j \in 1..Len(cs) :
             /\ cs[j].metadata.heading = CurrentHeadingAt(content, cs[j].text[1].pos)
             /\ cs[j].metadata.headingId =
                  IF cs[j].metadata.heading = NoValue THEN NoValue
                  ELSE slugify(cs[j].metadata.heading)
             /\ \A i \in 2..Len(cs[j].text) : cs[j].text[i].pos \notin hs
        /\ \A p \in hs :
             \E j \in 1..Len(cs) :
               /\ cs[j].text[1].pos = p
               /\ cs[j].metadata.heading = content[p].h
        /\ \A p \in hs :
             ( /\ hs = {1, p}
               /\ p # 1
               /\ StaysBelow(content, 1, p - 1, chunkerOptions.maxChunkSize)
               /\ StaysBelow(content, p, Len(content), chunkerOptions.maxChunkSize) )
             => /\ Len(cs) = 2
                /\ cs[1].metadata.heading = content[1].h
                /\ cs[2].metadata.heading = content[p].h

\* a document of two sections under different headings has been chunked into
\* the two chunks of its sections
C22_Witness ==
  /\ ChunkerReturned
  /\ Len(chunkerDoc.content) = 4
  /\ chunkerDoc.content[1].h = <<"A">>
  /\ chunkerDoc.content[2].k = "text"
  /\ chunkerDoc.content[3].h = <<"B">>
  /\ chunkerDoc.content[4].k = "text"
  /\ Len(chunkerOut.chunks) = 2
  /\ PositionsOf(chunkerOut.chunks[1]) = {1, 2}
  /\ chunkerOut.chunks[1].metadata.heading = <<"A">>
  /\ PositionsOf(chunkerOut.chunks[2]) = {3, 4}
  /\ chunkerOut.chunks[2].metadata.heading = <<"B">>
  /\ chunkerOut.chunks[2].metadata.headingId = <<"b">>

\* the state of the line loop of chunkDocument before it takes line i
ChunkerBefore(i) ==
  ChunkerLoop(ChunkerStart, SubSeq(chunkerDoc.content, 1, i - 1), 1, chunkerDoc,
              hashContent(chunkerDoc.content), chunkerOptions)

RECURSIVE SumLineTokens(_)
SumLineTokens(lines) ==
  IF lines = <<>> THEN 0
  ELSE estimateTokens(lines[1].n) + SumLineTokens(Tail(lines))

\* the last m lines of a buffer
Suffix(lines, m) == SubSeq(lines, Len(lines) - m + 1, Len(lines))

\* line i is an ordinary line whose appending fills the buffered chunk
SizeFlushAt(i) ==
  LET st == ChunkerBefore(i)
      line == chunkerDoc.content[i]
  IN  /\ ~IsFence(line)
      /\ ~st.inCodeBlock
      /\ ~IsHeading(line)
      /\ estimateTokens(JoinLen(Append(st.currentChunk, line)))
           >= chunkerOptions.maxChunkSize

\* C23: when appending an ordinary line brings the buffered chunk's token
\* estimate to maxChunkSize or more, the buffer is emitted and the next chunk is
\* seeded with the longest suffix of whole lines of the emitted buffer whose
\* summed per-line token estimates do not exceed chunkOverlap.
C23_OverlapSeed ==
  ChunkerReturned =>
    \A i \in 1..Len(chunkerDoc.content) :
      SizeFlushAt(i) =>
        LET st == ChunkerBefore(i)
            after == ChunkerBefore(i + 1)
            buf == Append(st.currentChunk, chunkerDoc.content[i])
            seed == after.currentChunk
        IN  /\ Len(after.chunks) = Len(st.chunks) + 1
            /\ SubSeq(after.chunks, 1, Len(st.chunks)) = st.chunks
            /\ after.chunks[Len(after.chunks)].text = Trim(buf)
            /\ Len(seed) <= Len(buf)
            /\ seed = Suffix(buf, Len(seed))
            /\ SumLineTokens(seed) <= chunkerOptions.chunkOverlap
            /\ Len(seed) < Len(buf) =>
                 SumLineTokens(Suffix(buf, Len(seed) + 1)) > chunkerOptions.chunkOverlap

\* a buffer of three lines has been emitted and the next chunk seeded with its
\* last two lines, the third not fitting the overlap
C23_Witness ==
  /\ ChunkerReturned
  /\ \E i \in 1..Len(chunkerDoc.content) :
       /\ SizeFlushAt(i)
       /\ Len(ChunkerBefore(i).currentChunk) = 2
       /\ Len(ChunkerBefore(i + 1).currentChunk) = 2
       /\ chunkerOptions.chunkOverlap = 2

\* C34: for a document in which every opened code fence is closed the chunker
\* loses no content: every non-blank line is in the text of some emitted chunk,
\* each chunk is a contiguous run of document lines, and the chunks come in
\* document order (neither the first nor the last line of a chunk lies before
\* that of the chunk emitted before it).
C34_NoContentLost ==
  (ChunkerReturned /\ OpenFence(chunkerDoc.content) = 0) =>
    LET content == chunkerDoc.content
        cs == chunkerOut.chunks
    IN  /\ \A p \in 1..Len(content) :
             content[p].k # "blank" => \E j \in 1..Len(cs) : p \in PositionsOf(cs[j])
        /\ \A j \in 1..Len(cs) :
             \A i \in 1..(Len(cs[j].text) - 1) :
               cs[j].text[i + 1].pos = cs[j].text[i].pos + 1
        /\ \A j \in 1..(Len(cs) - 1) :
             /\ cs[j].text[1].pos <= cs[j + 1].text[1].pos
             /\ cs[j].text[Len(cs[j].text)].pos <= cs[j + 1].text[Len(cs[j + 1].text)].pos

\* a document with a closed code block and a heading has been split into
\* three chunks or more, one of them by size
C34_Witness ==
  /\ ChunkerReturned
  /\ FencePairs(chunkerDoc.content) # {}
  /\ OpenFence(chunkerDoc.content) = 0
  /\ HeadingPositions(chunkerDoc.content) # {}
  /\ \E i \in 1..Len(chunkerDoc.content) : SizeFlushAt(i)
  /\ Len(chunkerOut.chunks) >= 3

(***************************************************************************)
(* Properties of the Embedder                                              *)
(***************************************************************************)
\* C11: however many initialize() and embed() calls are made on one embedder,
\* one after the other or while a load is outstanding, at most one model load
\* (pipeline() call) is ever issued.
C11_SingleModelLoad == pipelineCalls <= 1

\* the vectors embedBatch has to return for its texts
ExpectedEmbeddings(b) ==
  [j \in 1..Len(b.texts) |-> embed(embedder.modelName, b.texts[j])]

IsAscending(s) == \A i, j \in 1..Len(s) : i < j => s[i] < s[j]

\* C14: embedBatch(texts, batchSize) returns a list as long as texts whose i-th
\* element is the embedding of texts[i], for every batchSize >= 1 and every
\* completion order of the embed calls of a batch.
C14_BatchPreservesOrder ==
  batchCall.at = "returned" =>
    /\ Len(batchCall.embeddings) = Len(batchCall.texts)
    /\ batchCall.embeddings = ExpectedEmbeddings(batchCall)

C14_Witness ==
  /\ batchCall.at = "returned"
  /\ batchCall.batchSize = 2
  /\ Len(batchCall.texts) >= 3
  /\ ~IsAscending(batchCall.completed)

\* C15: during embedBatch at most batchSize embed calls are in flight, and all
\* of them belong to the batch the loop is at: no call of a later batch has
\* started while a call of an earlier batch is outstanding.
C15_BatchesAreSequential ==
  batchCall.at # "none" =>
    /\ Cardinality(batchCall.inFlight) <= batchCall.batchSize
    /\ batchCall.inFlight \subseteq (batchCall.i + 1)..BatchEnd(batchCall, batchCall.i)
    /\ \A k \in batchCall.inFlight : k \in Range(batchCall.started)
    /\ \A k \in 1..Min(batchCall.i, Len(batchCall.texts)) :
         k \in Range(batchCall.completed)

C15_Witness ==
  /\ batchCall.at = "run"
  /\ batchCall.i > 0
  /\ batchCall.batchSize >= 2
  /\ Cardinality(batchCall.inFlight) = batchCall.batchSize

\* C37: embedBatch terminates for every list of n texts and every batchSize,
\* provided each embed call settles; when it returns it has run
\* ceil(n / batchSize) batches, issued exactly n embed calls, and reported
\* progress after each batch with a non-decreasing current count that ends at n.
C37_EmbedBatchTerminates ==
  /\ (batchCall.at # "none") ~> (batchCall.at \in {"returned", "rejected"})
  /\ [](batchCall.at = "returned" =>
         LET n == Len(batchCall.texts)
             reports == batchCall.progress
         IN  /\ Len(batchCall.started) = n
             /\ \A j \in 1..Len(reports) : reports[j][2] = n
             /\ \A j \in 1..(Len(reports) - 1) : reports[j][1] <= reports[j + 1][1]
             /\ batchCall.batchSize >= 1 =>
                  /\ Len(reports) = (n + batchCall.batchSize - 1) \div batchCall.batchSize
                  /\ n > 0 => reports[Len(reports)][1] = n)

(***************************************************************************)
(* Properties of the client                                                *)
(***************************************************************************)
ClientCallIndices == 1..Len(clientCalls)

\* calls whose fetch of the artifact (request or body) is outstanding
FetchesInFlight == {c \in ClientCallIndices : clientCalls[c].at \in {"fetch", "json"}}

VectorDBLoaded == vectorSearch.vectorDB # JsonNull

\* C12: for every interleaving of loadVectorDB() and search() calls at most
\* one fetch of the artifact is in flight, and once the artifact has been
\* fetched and stored no further fetch is issued.
C12_SingleFlightFetch ==
  [][/\ Cardinality(FetchesInFlight') <= 1
     /\ VectorDBLoaded => fetchCount' = fetchCount]_vars

C12_Witness ==
  /\ \E c \in ClientCallIndices : clientCalls[c].at = "json"
  /\ \E c \in ClientCallIndices :
       clientCalls[c].op = "loadVectorDB" /\ clientCalls[c].at = "wait"
  /\ \E c \in ClientCallIndices :
       clientCalls[c].op = "search" /\ clientCalls[c].at = "wait"

\* C13: every initialize() or loadVectorDB() call that has resolved, the
\* loading caller's and a waiting caller's alike, finds the resource loaded.
C13_ResolvedMeansLoaded ==
  \A c \in ClientCallIndices :
    clientCalls[c].at = "returned" =>
      /\ clientCalls[c].op = "initialize" => clientEmbedder.model
      /\ clientCalls[c].op = "loadVectorDB" => VectorDBLoaded

\* C28: the query vector and the stored chunk embeddings come from the same
\* embedding model: every vector the client embedder returns was computed by
\* the model named in the model field of the artifact the site serves.
C28_SameEmbeddingModel ==
  \A c \in ClientCallIndices :
    (clientCalls[c].op = "embed" /\ clientCalls[c].at = "returned") =>
      clientCalls[c].value.model = served.model

(***************************************************************************)
(* Properties of the search engine of the chat                             *)
(***************************************************************************)
RagCallIndices == 1..Len(ragCalls)

\* queryRAG call c has returned a response
RagReturned(c) == ragCalls[c].op = "queryRAG" /\ ragCalls[c].at = "returned"

\* the positions in a list of sources at which a URL occurs for the first time
FirstOccurrences(list) ==
  {i \in 1..Len(list) : \A j \in 1..(i - 1) : list[j].url # list[i].url}

\* C24: the sources of an answer hold one entry per distinct URL among the
\* results, in the order of each URL's first occurrence, and the entry kept for
\* a URL (its title) is that of the first result with that URL.
C24_SourcesKeepFirst ==
  \A c \in RagCallIndices :
    RagReturned(c) =>
      LET all == sources(ragCalls[c].results)
          firsts == FirstOccurrences(all)
          kept == ragCalls[c].value.sources
      IN  /\ Len(kept) = Cardinality(firsts)
          /\ \A i \in firsts :
               kept[Cardinality({j \in firsts : j <= i})] = all[i]

\* C25: for n >= 1 ranked results the answer renders exactly min(3, n) results,
\* in ranked order; a footer stating n - 3 further matches is there iff n > 3;
\* the intent of the query changes neither the results shown nor their order.
C25_TopThreeAndFooter ==
  \A c \in RagCallIndices :
    (RagReturned(c) /\ ragCalls[c].results # <<>>) =>
      LET results == ragCalls[c].results
          n == Len(results)
          answer == ragCalls[c].value.answer
      IN  /\ Len(answer.items) = Min(3, n)
          /\ \A i \in 1..Len(answer.items) :
               /\ answer.items[i].link = DeepLink(results[i].chunk.metadata)
               /\ answer.items[i].heading =
                    IF results[i].chunk.metadata.heading # NoValue
                    THEN results[i].chunk.metadata.heading
                    ELSE <<results[i].chunk.metadata.title>>
               /\ answer.items[i].preview = formatTextPreview(Trim(results[i].chunk.text))
          /\ answer.footer.kind = "more" <=> n > 3
          /\ n > 3 => answer.footer.count = n - 3
          /\ \A q \in RagQueries :
               formatSearchResults(q, results).items = answer.items

\* a how-to query has returned five results: three are rendered, two announced
C25_Witness ==
  \E c \in RagCallIndices :
    /\ RagReturned(c)
    /\ Len(ragCalls[c].results) = 5
    /\ ragCalls[c].value.answer.intro.kind = "how to"
    /\ Len(ragCalls[c].value.answer.items) = 3
    /\ ragCalls[c].value.answer.footer = [kind |-> "more", count |-> 2]

\* the search of queryRAG call c has returned no result
SearchFoundNothing(c) ==
  /\ ragCalls[c].op = "queryRAG"
  /\ ragCalls[c].at \in {"returned", "rejected"}
  /\ ragCalls[c].error \notin {"Search system not initialized", "infer"}
  /\ LET r == search(vectorSearch.vectorDB, QueryVector(ragCalls[c].query), ragCalls[c].k)
     IN  r.at = "returned" /\ r.value = <<>>

\* C26: a query whose search returns no results resolves, with the fixed
\* nothing-found answer and an empty list of sources; it does not reject.
C26_NothingFoundIsAnAnswer ==
  \A c \in RagCallIndices :
    SearchFoundNothing(c) =>
      /\ ragCalls[c].at = "returned"
      /\ ragCalls[c].value = [answer |-> NothingFound, sources |-> <<>>]

\* a query on an artifact without chunks has been answered
C26_Witness ==
  \E c \in RagCallIndices :
    /\ SearchFoundNothing(c)
    /\ served.chunks = <<>>
    /\ ragCalls[c].at = "returned"
    /\ ragCalls[c].value.answer = NothingFound

\* C27: a queryRAG call without an explicit topK returns at most the configured
\* build.topK (default 3) results.
C27_ConfiguredTopK ==
  \A c \in RagCallIndices :
    (RagReturned(c) /\ ragCalls[c].topK = 0) => Len(ragCalls[c].results) <= ConfigTopK

\* a queryRAG call is made in this step
QueryMade ==
  /\ Len(ragCalls') = Len(ragCalls) + 1
  /\ ragCalls'[Len(ragCalls')].op = "queryRAG"

\* C35: isRAGReady() is true only when both the vector database and the
\* embedding model are loaded, and a queryRAG call made while it is false
\* rejects with 'Search system not initialized' and never gets to embed or
\* search: it has no results and no answer, and the loaded state is untouched.
C35_NotReadyRejects ==
  /\ [](isRAGReady => (vectorSearch.vectorDB # JsonNull /\ clientEmbedder.model))
  /\ [][(QueryMade /\ ~isRAGReady) =>
         /\ ragCalls'[Len(ragCalls')].at = "rejected"
         /\ ragCalls'[Len(ragCalls')].error = "Search system not initialized"
         /\ UNCHANGED <<rag, clientVars>>]_vars
  /\ [](\A c \in RagCallIndices :
         (ragCalls[c].op = "queryRAG"
            /\ ragCalls[c].error = "Search system not initialized") =>
           /\ ragCalls[c].at = "rejected"
           /\ ragCalls[c].results = <<>>
           /\ ragCalls[c].value = NoValue)

\* a query made after initializeRAG failed has been turned away
C35_Witness ==
  \E c, d \in RagCallIndices :
    /\ ragCalls[c].op = "initializeRAG" /\ ragCalls[c].at = "rejected"
    /\ ragCalls[d].op = "queryRAG" /\ ragCalls[d].at = "rejected"
    /\ ragCalls[d].error = "Search system not initialized"
    /\ ~isRAGReady

\* the runs of handleSendMessage
ChatSends == 1..Len(chat.sends)

\* this step adds the reply of send s
ReplyAdded(s) ==
  /\ s \in ChatSends
  /\ chat.sends[s].at # "done"
  /\ chat'.sends[s].at = "done"

\* C36: whatever the order of sends, query completions and clear-history
\* events, every non-empty sent message gets exactly one assistant reply, the
\* input and the send button are enabled again once the reply is added, and
\* in the stored history every assistant message comes right after the user
\* message it answers.
C36_EverySendAnswered ==
  /\ \A s \in 1..MaxQueries :
       (Len(chat.sends) >= s) ~> (Len(chat.sends) >= s /\ chat.sends[s].at = "done")
  /\ [][\A s \in 1..MaxQueries :
          ReplyAdded(s) =>
            /\ Len(chat'.messages) = Len(chat.messages) + 1
            /\ chat'.messages[Len(chat'.messages)].role = "assistant"
            /\ ~chat'.inputDisabled /\ ~chat'.sendDisabled
            /\ Len(chat'.stored) >= 2
            /\ chat'.stored[Len(chat'.stored) - 1].role = "user"
            /\ chat'.stored[Len(chat'.stored) - 1].content = chat.sends[s].message]_vars
  /\ [][(Len(chat'.messages) > Len(chat.messages)
           /\ chat'.messages[Len(chat'.messages)].role = "assistant") =>
          \E s \in 1..MaxQueries : ReplyAdded(s)]_vars
  /\ []((\A s \in ChatSends : chat.sends[s].at = "done") =>
          (~chat.inputDisabled /\ ~chat.sendDisabled))
  /\ [](\A i \in 1..Len(chat.stored) :
          chat.stored[i].role = "assistant" =>
            (i > 1 /\ chat.stored[i - 1].role = "user"))

(***************************************************************************)
(* Properties of search                                                    *)
(***************************************************************************)
DbChunks == vectorSearch.vectorDB.chunks

\* position of a chunk in the database
DbIndex(chunk) == CHOOSE m \in 1..Len(DbChunks) : DbChunks[m] = chunk

IsZeroVector(v) == \A i \in 1..Len(v) : v[i] = 0

SearchSettled(c) ==
  clientCalls[c].op = "search" /\ clientCalls[c].at \in {"returned", "rejected"}

SearchReturned(c) == clientCalls[c].op = "search" /\ clientCalls[c].at = "returned"

LengthsMatch(c) ==
  \A m \in 1..Len(DbChunks) : Len(DbChunks[m].embedding) = Len(clientCalls[c].query)

\* C16: search returns min(topK, number of chunks) results, each a chunk of
\* the database with its cosine score, sorted by non-increasing score; no
\* chunk left out scores higher than a returned one; chunks of equal score
\* keep their database order.
C16_SearchTopK ==
  \A c \in ClientCallIndices :
    SearchReturned(c) =>
      LET res == clientCalls[c].value
          q == clientCalls[c].query
          shown == {DbIndex(res[i].chunk) : i \in 1..Len(res)}
      IN  /\ Len(res) = Min(clientCalls[c].topK, Len(DbChunks))
          /\ Cardinality(shown) = Len(res)
          /\ \A i \in 1..Len(res) :
               /\ res[i].chunk \in Range(DbChunks)
               /\ res[i].score = cosineSimilarity(q, res[i].chunk.embedding)
          /\ \A i, j \in 1..Len(res) :
               i < j =>
                 /\ ~ScoreLess(res[i].score, res[j].score)
                 /\ res[i].score = res[j].score
                      => DbIndex(res[i].chunk) < DbIndex(res[j].chunk)
          /\ \A i \in 1..Len(res) :
               \A m \in (1..Len(DbChunks)) \ shown :
                 LET other == cosineSimilarity(q, DbChunks[m].embedding)
                 IN  /\ ~ScoreLess(res[i].score, other)
                     /\ res[i].score = other => DbIndex(res[i].chunk) < m

C16_Witness ==
  \E c \in ClientCallIndices :
    /\ SearchReturned(c)
    /\ Len(DbChunks) = 4
    /\ Len(clientCalls[c].value) = 3
    /\ clientCalls[c].value[1].score = clientCalls[c].value[2].score
    /\ ScoreLess(clientCalls[c].value[3].score, clientCalls[c].value[2].score)

\* C17: for a query and a chunk of equal length of which one has zero norm
\* (two empty vectors included) the score is exactly 0, and a search over
\* chunks of the query's length returns whatever zero vectors there are.
C17_ZeroNormScoresZero ==
  \A c \in ClientCallIndices :
    SearchSettled(c) =>
      /\ \A m \in 1..Len(DbChunks) :
           (/\ Len(DbChunks[m].embedding) = Len(clientCalls[c].query)
            /\ IsZeroVector(DbChunks[m].embedding) \/ IsZeroVector(clientCalls[c].query))
             => cosineSimilarity(clientCalls[c].query, DbChunks[m].embedding) = Score(0, 1)
      /\ LengthsMatch(c) =>
           /\ clientCalls[c].at = "returned"
           /\ \A i \in 1..Len(clientCalls[c].value) :
                (IsZeroVector(clientCalls[c].value[i].chunk.embedding)
                   \/ IsZeroVector(clientCalls[c].query))
                  => clientCalls[c].value[i].score = Score(0, 1)

C17_Witness ==
  \E c \in ClientCallIndices :
    /\ SearchReturned(c)
    /\ ~IsZeroVector(clientCalls[c].query)
    /\ \E i \in 1..Len(clientCalls[c].value) :
         /\ IsZeroVector(clientCalls[c].value[i].chunk.embedding)
         /\ Len(clientCalls[c].value[i].chunk.embedding) = 2
         /\ clientCalls[c].value[i].score = Score(0, 1)

\* C18: a search whose query length differs from the embedding length of
\* some stored chunk rejects with the length error; no search that returns
\* results has scored a chunk of another length.
C18_LengthMismatchFails ==
  \A c \in ClientCallIndices :
    SearchSettled(c) =>
      /\ ~LengthsMatch(c) => (clientCalls[c].at = "rejected" /\ clientCalls[c].value = "length")
      /\ clientCalls[c].at = "returned" =>
           \A i \in 1..Len(clientCalls[c].value) :
             Len(clientCalls[c].value[i].chunk.embedding) = Len(clientCalls[c].query)

C18_Witness ==
  \E c \in ClientCallIndices :
    /\ clientCalls[c].op = "search"
    /\ clientCalls[c].at = "rejected"
    /\ clientCalls[c].value = "length"
    /\ Len(DbChunks) = 2
    /\ Len(DbChunks[1].embedding) = Len(clientCalls[c].query)

====
